---- MODULE Spec2Model ----
(***************************************************************************)
(* A model of the MAXI parser and serializer (maxi-format/maxi-javascript). *)
(*                                                                         *)
(* Text is a sequence of one-character strings; positions are 1-based, so  *)
(* position p here is JavaScript index p-1 and "not found" (-1) is 0.      *)
(* An optional value (undefined / null in the source) is a record          *)
(* [some |-> BOOLEAN, v |-> ...].                                          *)
(***************************************************************************)
EXTENDS Integers, Sequences, FiniteSets, TLC

\* ------------------------------------------------------------------ text

QUOTE == "\""
BSLASH == "\\"
LF == "\n"
CR == "\r"
TAB == "\t"
SP == " "

Upper == {"A","B","C","D","E","F","G","H","I","J","K","L","M",
          "N","O","P","Q","R","S","T","U","V","W","X","Y","Z"}
Lower == {"a","b","c","d","e","f","g","h","i","j","k","l","m",
          "n","o","p","q","r","s","t","u","v","w","x","y","z"}
DigitSeq == <<"0","1","2","3","4","5","6","7","8","9">>
Digits == {DigitSeq[i] : i \in 1..10}

IsDigit(c) == c \in Digits
DigitVal(c) == (CHOOSE i \in 1..10 : DigitSeq[i] = c) - 1
IsWs(c) == c \in {SP, TAB, LF, CR}

None == [some |-> FALSE, v |-> <<>>]
Some(t) == [some |-> TRUE, v |-> t]

Slice(s, from, to) == IF from > to THEN <<>> ELSE SubSeq(s, from, to)
From(s, from) == Slice(s, from, Len(s))

RECURSIVE TrimStart(_)
TrimStart(s) == IF s # <<>> /\ IsWs(s[1]) THEN TrimStart(Tail(s)) ELSE s

RECURSIVE TrimEnd(_)
TrimEnd(s) ==
  IF s # <<>> /\ IsWs(s[Len(s)]) THEN TrimEnd(Slice(s, 1, Len(s) - 1)) ELSE s

Trim(s) == TrimEnd(TrimStart(s))

StartsWith(s, p) == Len(s) >= Len(p) /\ Slice(s, 1, Len(p)) = p
EndsWith(s, p) == Len(s) >= Len(p) /\ Slice(s, Len(s) - Len(p) + 1, Len(s)) = p

\* String.prototype.indexOf for a single character (0 when absent).
IndexOf(s, c) ==
  IF \E i \in 1..Len(s) : s[i] = c
  THEN CHOOSE i \in 1..Len(s) : s[i] = c /\ \A j \in 1..(i - 1) : s[j] # c
  ELSE 0

Has(s, c) == \E i \in 1..Len(s) : s[i] = c

\* Array.prototype.join
RECURSIVE Join(_, _)
Join(parts, sep) ==
  IF parts = <<>> THEN <<>>
  ELSE IF Len(parts) = 1 THEN parts[1]
  ELSE parts[1] \o sep \o Join(Tail(parts), sep)

\* String.prototype.split on a single character
RECURSIVE SplitChar(_, _)
SplitChar(s, c) ==
  LET i == IndexOf(s, c) IN
  IF i = 0 THEN <<s>>
  ELSE <<Slice(s, 1, i - 1)>> \o SplitChar(From(s, i + 1), c)

\* split(/\r?\n/)
RECURSIVE SplitLines(_)
SplitLines(s) ==
  LET i == IndexOf(s, LF) IN
  IF i = 0 THEN <<s>>
  ELSE LET l == Slice(s, 1, i - 1)
           l2 == IF l # <<>> /\ l[Len(l)] = CR THEN Slice(l, 1, Len(l) - 1) ELSE l
       IN <<l2>> \o SplitLines(From(s, i + 1))

\* s.replace(/ab/g, r) for a two-character pattern and a one-character result
RECURSIVE ReplaceAll2(_, _, _, _)
ReplaceAll2(s, a, b, r) ==
  IF Len(s) < 2 THEN s
  ELSE IF s[1] = a /\ s[2] = b THEN <<r>> \o ReplaceAll2(From(s, 3), a, b, r)
  ELSE <<s[1]>> \o ReplaceAll2(Tail(s), a, b, r)

\* s.replace(/c/g, r) for a one-character pattern and a text result
RECURSIVE ReplaceAll1(_, _, _)
ReplaceAll1(s, c, r) ==
  IF s = <<>> THEN <<>>
  ELSE (IF s[1] = c THEN r ELSE <<s[1]>>) \o ReplaceAll1(Tail(s), c, r)

SelectSeqNonEmpty(parts) == SelectSeq(parts, LAMBDA p : p # <<>>)

RECURSIVE MapTrim(_)
MapTrim(parts) ==
  IF parts = <<>> THEN <<>> ELSE <<Trim(parts[1])>> \o MapTrim(Tail(parts))

\* ---------------------------------------------------------------- numbers

\* A number is [k |-> "num", n |-> mantissa, e |-> fraction digits]: n / 10^e,
\* with no trailing fraction zero (the value, not its spelling); -0 is 0.
RECURSIVE DigitsToNat(_, _)
DigitsToNat(s, acc) ==
  IF s = <<>> THEN acc ELSE DigitsToNat(Tail(s), acc * 10 + DigitVal(s[1]))

RECURSIVE NatToDigits(_)
NatToDigits(n) ==
  IF n < 10 THEN <<DigitSeq[n + 1]>>
  ELSE NatToDigits(n \div 10) \o <<DigitSeq[(n % 10) + 1]>>

RECURSIVE LeadingDigits(_)
LeadingDigits(s) ==
  IF s # <<>> /\ IsDigit(s[1]) THEN <<s[1]>> \o LeadingDigits(Tail(s)) ELSE <<>>

RECURSIVE Normalize(_, _)
Normalize(m, e) == IF e > 0 /\ m % 10 = 0 THEN Normalize(m \div 10, e - 1) ELSE <<m, e>>

NumV(m, e) == [k |-> "num", n |-> Normalize(m, e)[1], e |-> Normalize(m, e)[2], s |-> <<>>]

\* parseInt(s, 10) of an optional '-' followed by digits only
ParseIntText(s) ==
  IF s # <<>> /\ s[1] = "-" THEN 0 - DigitsToNat(Tail(s), 0) ELSE DigitsToNat(s, 0)

\* parseFloat: the longest prefix [+-]? digits* ('.' digits*)? holding a digit
\* (exponents are outside the modelled inputs); None is NaN.
ParseFloatPrefix(s) ==
  LET neg == s # <<>> /\ s[1] = "-"
      body == IF s # <<>> /\ s[1] \in {"-", "+"} THEN Tail(s) ELSE s
      ip == LeadingDigits(body)
      rest == From(body, Len(ip) + 1)
      fp == IF rest # <<>> /\ rest[1] = "." THEN LeadingDigits(Tail(rest)) ELSE <<>>
      m == DigitsToNat(ip \o fp, 0)
  IN IF ip = <<>> /\ fp = <<>> THEN None
     ELSE Some(NumV(IF neg THEN 0 - m ELSE m, Len(fp)))

RECURSIVE PadZeros(_, _)
PadZeros(d, w) == IF Len(d) >= w THEN d ELSE PadZeros(<<"0">> \o d, w)

\* String(number)
NumToText(v) ==
  LET a == IF v.n < 0 THEN 0 - v.n ELSE v.n
      d == PadZeros(NatToDigits(a), v.e + 1)
      sign == IF v.n < 0 THEN <<"-">> ELSE <<>>
  IN IF v.e = 0 THEN sign \o d
     ELSE sign \o Slice(d, 1, Len(d) - v.e) \o <<".">> \o Slice(d, Len(d) - v.e + 1, Len(d))

\* ------------------------------------------------- schema-side scanners

ScanInit == [str |-> FALSE, esc |-> FALSE, p |-> 0, b |-> 0, c |-> 0]

Max0(n) == IF n < 0 THEN 0 ELSE n

\* One character of the quote/escape/nesting scan shared by the schema
\* parser's splitTopLevel, findTopLevelChar and splitConstraintParts
\* (depths are clamped at 0).
ScanStep(st, ch) ==
  IF st.esc THEN [st EXCEPT !.esc = FALSE]
  ELSE IF st.str THEN
    (IF ch = BSLASH THEN [st EXCEPT !.esc = TRUE]
     ELSE IF ch = QUOTE THEN [st EXCEPT !.str = FALSE]
     ELSE st)
  ELSE IF ch = QUOTE THEN [st EXCEPT !.str = TRUE]
  ELSE IF ch = "(" THEN [st EXCEPT !.p = @ + 1]
  ELSE IF ch = ")" THEN [st EXCEPT !.p = Max0(@ - 1)]
  ELSE IF ch = "[" THEN [st EXCEPT !.b = @ + 1]
  ELSE IF ch = "]" THEN [st EXCEPT !.b = Max0(@ - 1)]
  ELSE IF ch = "{" THEN [st EXCEPT !.c = @ + 1]
  ELSE IF ch = "}" THEN [st EXCEPT !.c = Max0(@ - 1)]
  ELSE st

\* The character is outside strings: it reaches the delimiter test.
Plain(st, ch) == ~st.esc /\ ~st.str /\ ch # QUOTE

AtTop(st) == st.p = 0 /\ st.b = 0 /\ st.c = 0

RECURSIVE findTopLevelCharFrom(_, _, _, _)
findTopLevelCharFrom(s, ch, i, st) ==
  IF i > Len(s) THEN 0
  ELSE LET st2 == ScanStep(st, s[i]) IN
       IF Plain(st, s[i]) /\ s[i] = ch /\ AtTop(st2) THEN i
       ELSE findTopLevelCharFrom(s, ch, i + 1, st2)

findTopLevelChar(s, ch) == findTopLevelCharFrom(s, ch, 1, ScanInit)

RECURSIVE schemaSplitFrom(_, _, _, _, _)
schemaSplitFrom(s, delim, i, start, st) ==
  IF i > Len(s) THEN <<Slice(s, start, Len(s))>>
  ELSE LET st2 == ScanStep(st, s[i]) IN
       IF Plain(st, s[i]) /\ s[i] = delim /\ AtTop(st2)
       THEN <<Slice(s, start, i - 1)>> \o schemaSplitFrom(s, delim, i + 1, i + 1, st2)
       ELSE schemaSplitFrom(s, delim, i + 1, start, st2)

schemaSplitTopLevel(s, delim) == schemaSplitFrom(s, delim, 1, 1, ScanInit)

splitConstraintParts(s) == schemaSplitFrom(s, ",", 1, 1, ScanInit)

\* findMatchingParen: position of the ')' matching the '(' at openIdx, or 0.
RECURSIVE findMatchingParenFrom(_, _, _)
findMatchingParenFrom(s, i, st) ==
  IF i > Len(s) THEN 0
  ELSE LET ch == s[i] IN
       IF st.esc THEN findMatchingParenFrom(s, i + 1, [st EXCEPT !.esc = FALSE])
       ELSE IF st.str THEN
         findMatchingParenFrom(s, i + 1,
           IF ch = BSLASH THEN [st EXCEPT !.esc = TRUE]
           ELSE IF ch = QUOTE THEN [st EXCEPT !.str = FALSE] ELSE st)
       ELSE IF ch = QUOTE THEN findMatchingParenFrom(s, i + 1, [st EXCEPT !.str = TRUE])
       ELSE IF ch = "(" THEN findMatchingParenFrom(s, i + 1, [st EXCEPT !.p = @ + 1])
       ELSE IF ch = ")" THEN
         (IF st.p - 1 = 0 THEN i
          ELSE findMatchingParenFrom(s, i + 1, [st EXCEPT !.p = @ - 1]))
       ELSE findMatchingParenFrom(s, i + 1, st)

findMatchingParen(s, openIdx) ==
  IF openIdx < 1 \/ openIdx > Len(s) \/ s[openIdx] # "(" THEN 0
  ELSE findMatchingParenFrom(s, openIdx, ScanInit)

\* extractTrailingGroup(s, '(', ')'): the backwards scan for the '(' matching
\* the final ')'; a '"' toggles the string state, without escapes.
RECURSIVE trailingOpenFrom(_, _, _, _)
trailingOpenFrom(t, i, inString, depth) ==
  IF i < 1 THEN 0
  ELSE LET ch == t[i] IN
       IF ch = QUOTE THEN trailingOpenFrom(t, i - 1, ~inString, depth)
       ELSE IF inString THEN trailingOpenFrom(t, i - 1, inString, depth)
       ELSE IF ch = ")" THEN trailingOpenFrom(t, i - 1, inString, depth + 1)
       ELSE IF ch = "(" THEN
         (IF depth - 1 = 0 THEN i ELSE trailingOpenFrom(t, i - 1, inString, depth - 1))
       ELSE trailingOpenFrom(t, i - 1, inString, depth)

extractTrailingGroup(s) ==
  LET t == TrimEnd(s)
      startIdx == IF t # <<>> /\ t[Len(t)] = ")" THEN trailingOpenFrom(t, Len(t) - 1, FALSE, 1)
                  ELSE 0
  IN IF startIdx = 0 THEN [ok |-> FALSE, before |-> <<>>, inner |-> <<>>]
     ELSE [ok |-> TRUE, before |-> Slice(t, 1, startIdx - 1),
           inner |-> Slice(t, startIdx + 1, Len(t) - 1)]

\* unescapeString: five global replacements, one after the other
unescapeString(s) ==
  ReplaceAll2(ReplaceAll2(ReplaceAll2(ReplaceAll2(ReplaceAll2(
    s, BSLASH, "n", LF), BSLASH, "r", CR), BSLASH, "t", TAB), BSLASH, QUOTE, QUOTE),
    BSLASH, BSLASH, BSLASH)


\* --------------------------------------------------------------- values

\* A parsed value: null | bool | number | string, in one record shape.
NullV == [k |-> "null", n |-> 0, e |-> 0, s |-> <<>>]
BoolV(b) == [k |-> "bool", n |-> IF b THEN 1 ELSE 0, e |-> 0, s |-> <<>>]
StrV(t) == [k |-> "str", n |-> 0, e |-> 0, s |-> t]

\* ---------------------------------------------------- field definitions

Con(type, op, val, list) == [type |-> type, op |-> op, val |-> val, list |-> list]

\* new RegExp(pattern) succeeds; decided here for patterns without regex
\* metacharacters that need balancing or an operand.
RegExpCompiles(p) == \A i \in 1..Len(p) : p[i] \notin {"(", ")", "[", "]", "{", "}", "*", "+", "?", BSLASH}

\* The items of a mime list: split at commas outside strings.
RECURSIVE mimeItemsFrom(_, _, _, _)
mimeItemsFrom(s, i, start, st) ==
  IF i > Len(s) THEN <<Slice(s, start, Len(s))>>
  ELSE LET ch == s[i] IN
       IF st.esc THEN mimeItemsFrom(s, i + 1, start, [st EXCEPT !.esc = FALSE])
       ELSE IF st.str THEN
         mimeItemsFrom(s, i + 1, start,
           IF ch = BSLASH THEN [st EXCEPT !.esc = TRUE]
           ELSE IF ch = QUOTE THEN [st EXCEPT !.str = FALSE] ELSE st)
       ELSE IF ch = QUOTE THEN mimeItemsFrom(s, i + 1, start, [st EXCEPT !.str = TRUE])
       ELSE IF ch = "," THEN <<Slice(s, start, i - 1)>> \o mimeItemsFrom(s, i + 1, i + 1, st)
       ELSE mimeItemsFrom(s, i + 1, start, st)

Unquote(t) ==
  IF StartsWith(t, <<QUOTE>>) /\ EndsWith(t, <<QUOTE>>)
  THEN unescapeString(Slice(t, 2, Len(t) - 1)) ELSE t

RECURSIVE MapUnquoteTrim(_)
MapUnquoteTrim(items) ==
  IF items = <<>> THEN <<>>
  ELSE LET tt == Trim(items[1])
           u == IF StartsWith(tt, <<QUOTE>>) /\ EndsWith(tt, <<QUOTE>>)
                THEN Trim(Unquote(tt)) ELSE tt
       IN <<u>> \o MapUnquoteTrim(Tail(items))

parseMimeSpec(mimeSpec) ==
  LET s == Trim(mimeSpec) IN
  IF s = <<>> THEN [err |-> "", list |-> <<>>]
  ELSE IF s[1] # "[" THEN [err |-> "", list |-> SelectSeqNonEmpty(<<Trim(Unquote(s))>>)]
  ELSE IF s[Len(s)] # "]" THEN [err |-> "E014", list |-> <<>>]
  ELSE LET content == Trim(Slice(s, 2, Len(s) - 1)) IN
       IF content = <<>> THEN [err |-> "", list |-> <<>>]
       ELSE [err |-> "",
             list |-> SelectSeqNonEmpty(MapUnquoteTrim(
                        SelectSeqNonEmpty(MapTrim(mimeItemsFrom(content, 1, 1, ScanInit)))))]

AllDigits(t) == t # <<>> /\ \A i \in 1..Len(t) : IsDigit(t[i])

\* /^(\d+:)?(\d+)?\.(\d+(?::\d+)?)?$/
IsPrecision(t) ==
  LET d1 == LeadingDigits(t)
      r1 == IF d1 # <<>> /\ Len(t) > Len(d1) /\ t[Len(d1) + 1] = ":"
            THEN From(t, Len(d1) + 2) ELSE t
      r2 == From(r1, Len(LeadingDigits(r1)) + 1)
      r3 == Tail(r2)
      d3 == LeadingDigits(r3)
      r4 == From(r3, Len(d3) + 1)
  IN /\ r2 # <<>>
     /\ r2[1] = "."
     /\ \/ r3 = <<>>
        \/ d3 # <<>> /\ (r4 = <<>> \/ (r4[1] = ":" /\ AllDigits(Tail(r4))))

CompareOps == << <<">", "=">>, <<">">>, <<"<", "=">>, <<"<">>, <<"=">> >>

\* /^(>=|>|<=|<|=)\s*(.+)$/ : the first operator, in the regex's order, that
\* leaves at least one character for the value; 0 when none does.
CompareOpIdx(t) ==
  LET ok(i) == StartsWith(t, CompareOps[i]) /\ Len(t) > Len(CompareOps[i]) IN
  IF \E i \in 1..5 : ok(i)
  THEN CHOOSE i \in 1..5 : ok(i) /\ \A j \in 1..(i - 1) : ~ok(j)
  ELSE 0

PatternPrefix == <<"p","a","t","t","e","r","n",":">>
MimePrefix == <<"m","i","m","e",":">>

\* One constraint token: [err, noLine, con]
parseConstraint(t) ==
  LET nothing == Con("", <<>>, NullV, <<>>)
      good(c) == [err |-> "", noLine |-> FALSE, con |-> c]
  IN
  IF t = <<"!">> THEN good(Con("required", <<>>, NullV, <<>>))
  ELSE IF t = <<"i", "d">> THEN good(Con("id", <<>>, NullV, <<>>))
  ELSE IF t[1] = "=" /\ AllDigits(Tail(t))
    THEN good(Con("exact-length", <<>>, NumV(DigitsToNat(Tail(t), 0), 0), <<>>))
  ELSE IF CompareOpIdx(t) # 0 THEN
    LET op == CompareOps[CompareOpIdx(t)]
        value == Trim(From(t, Len(op) + 1))
        num == ParseFloatPrefix(value)
    IN good(Con("comparison", op, IF num.some THEN num.v ELSE StrV(value), <<>>))
  ELSE IF StartsWith(t, PatternPrefix) THEN
    LET pattern == Trim(From(t, Len(PatternPrefix) + 1)) IN
    IF RegExpCompiles(pattern) THEN good(Con("pattern", <<>>, StrV(pattern), <<>>))
    ELSE [err |-> "E014", noLine |-> FALSE, con |-> nothing]
  ELSE IF StartsWith(t, MimePrefix) THEN
    LET m == parseMimeSpec(Trim(From(t, Len(MimePrefix) + 1))) IN
    IF m.err # "" THEN [err |-> m.err, noLine |-> TRUE, con |-> nothing]
    ELSE good(Con("mime", <<>>, NullV, m.list))
  ELSE IF IsPrecision(t) THEN good(Con("decimal-precision", <<>>, StrV(t), <<>>))
  ELSE [err |-> "E014", noLine |-> FALSE, con |-> nothing]

RECURSIVE parseConstraintParts(_)
parseConstraintParts(parts) ==
  IF parts = <<>> THEN [err |-> "", noLine |-> FALSE, cs |-> <<>>]
  ELSE LET one == parseConstraint(parts[1]) IN
       IF one.err # "" THEN [err |-> one.err, noLine |-> one.noLine, cs |-> <<>>]
       ELSE LET rest == parseConstraintParts(Tail(parts)) IN
            IF rest.err # "" THEN rest
            ELSE [err |-> "", noLine |-> FALSE, cs |-> <<one.con>> \o rest.cs]

parseConstraints(constraintStr) ==
  parseConstraintParts(SelectSeqNonEmpty(MapTrim(splitConstraintParts(constraintStr))))

FieldDef(name, typeExpr, annotation, constraints, defaultValue) ==
  [name |-> name, typeExpr |-> typeExpr, annotation |-> annotation,
   constraints |-> constraints, defaultValue |-> defaultValue]

isRequired(f) == \E i \in 1..Len(f.constraints) : f.constraints[i].type = "required"

OrNull(t) == IF t = <<>> THEN None ELSE Some(t)

NoGroup == [ok |-> FALSE, before |-> <<>>, inner |-> <<>>]
NoConstraints == [err |-> "", noLine |-> FALSE, cs |-> <<>>]

\* parseField, step 4: typeExpr and annotation from what is left of restPart
parseFieldType(namePart, restPart, c, defaultValue) ==
  LET atIdx == IF restPart # <<>> THEN findTopLevelChar(restPart, "@") ELSE 0 IN
  [err |-> c.err, noLine |-> c.noLine,
   field |-> FieldDef(namePart,
                      IF restPart = <<>> THEN None
                      ELSE IF atIdx # 0 THEN OrNull(Trim(Slice(restPart, 1, atIdx - 1)))
                      ELSE OrNull(Trim(restPart)),
                      IF atIdx # 0 THEN OrNull(Trim(From(restPart, atIdx + 1))) ELSE None,
                      c.cs,
                      defaultValue)]

\* parseField, step 3: the default after the top-level '=' of namePart, else of
\* restPart; a default in double quotes is unquoted and unescaped
parseFieldDefault(namePart, restPart, c) ==
  LET eqIdxName == findTopLevelChar(namePart, "=")
      eqIdxRest == IF restPart # <<>> THEN findTopLevelChar(restPart, "=") ELSE 0
  IN IF eqIdxName # 0
     THEN parseFieldType(Trim(Slice(namePart, 1, eqIdxName - 1)), restPart, c,
                         Some(Unquote(Trim(From(namePart, eqIdxName + 1)))))
     ELSE IF eqIdxRest # 0
     THEN parseFieldType(namePart, Trim(Slice(restPart, 1, eqIdxRest - 1)), c,
                         Some(Unquote(Trim(From(restPart, eqIdxRest + 1)))))
     ELSE parseFieldType(namePart, restPart, c, None)

\* parseField, step 2, second part: with no constraint yet, the trailing
\* group of namePart
parseFieldNameGroup(namePart, restPart, c) ==
  LET trailing == IF c.cs = <<>> THEN extractTrailingGroup(namePart) ELSE NoGroup IN
  IF c.err # "" THEN [err |-> c.err, noLine |-> c.noLine,
                      field |-> FieldDef(<<>>, None, None, <<>>, None)]
  ELSE parseFieldDefault(IF trailing.ok THEN Trim(trailing.before) ELSE namePart,
                         restPart,
                         IF trailing.ok THEN parseConstraints(trailing.inner) ELSE c)

\* parseField, step 2, first part: the trailing group of restPart
parseFieldRestGroup(namePart, restPart) ==
  LET trailing == IF restPart # <<>> THEN extractTrailingGroup(restPart) ELSE NoGroup IN
  parseFieldNameGroup(namePart,
                      IF trailing.ok THEN Trim(trailing.before) ELSE restPart,
                      IF trailing.ok THEN parseConstraints(trailing.inner) ELSE NoConstraints)

\* parseField: [err, noLine, field]; step 1 splits name and rest at the first
\* top-level ':'
parseField(fieldStr) ==
  LET remainingStr == Trim(fieldStr)
      colonIdx0 == findTopLevelChar(remainingStr, ":")
  IN parseFieldRestGroup(
       IF colonIdx0 # 0 THEN Trim(Slice(remainingStr, 1, colonIdx0 - 1)) ELSE remainingStr,
       IF colonIdx0 # 0 THEN Trim(From(remainingStr, colonIdx0 + 1)) ELSE <<>>)

\* .replace(/\r?\n/g, ' ').replace(/\t/g, ' ').replace(/\s+/g, ' ')
RECURSIVE CollapseWs(_)
CollapseWs(s) ==
  IF s = <<>> THEN <<>>
  ELSE IF IsWs(s[1]) THEN <<SP>> \o CollapseWs(TrimStart(s))
  ELSE <<s[1]>> \o CollapseWs(Tail(s))

\* fields.push(parseField(...)) unless an earlier field already failed
pushField(acc, one) ==
  IF one.err # "" THEN [err |-> one.err, noLine |-> one.noLine, fields |-> acc.fields]
  ELSE [acc EXCEPT !.fields = Append(@, one.field)]

RECURSIVE parseFields(_, _)
parseFields(fieldStrs, acc) ==
  IF fieldStrs = <<>> THEN acc
  ELSE IF acc.err # "" THEN acc
  ELSE parseFields(Tail(fieldStrs), pushField(acc, parseField(Head(fieldStrs))))

\* parseFieldList: [err, noLine, fields]
parseFieldList(fieldsStr) ==
  parseFields(SelectSeqNonEmpty(MapTrim(schemaSplitTopLevel(Trim(CollapseWs(fieldsStr)), "|"))),
              [err |-> "", noLine |-> FALSE, fields |-> <<>>])


\* ----------------------------------------------------- type definitions

IsIdentStart(c) == c \in Upper \union Lower \union {"_"}
IsIdentChar(c) == IsIdentStart(c) \/ IsDigit(c) \/ c = "-"
IsAlpha(c) == c \in Upper \union Lower

RECURSIVE IdentCharsLen(_)
IdentCharsLen(s) == IF s # <<>> /\ IsIdentChar(s[1]) THEN 1 + IdentCharsLen(Tail(s)) ELSE 0

\* [A-Za-z_][A-Za-z0-9_-]*  and  [A-Za-z][A-Za-z0-9_-]* : length of the match, 0 for none
IdentLen(s) == IF s # <<>> /\ IsIdentStart(s[1]) THEN 1 + IdentCharsLen(Tail(s)) ELSE 0
NameLen(s) == IF s # <<>> /\ IsAlpha(s[1]) THEN 1 + IdentCharsLen(Tail(s)) ELSE 0

TypeDef(alias, name, parents, fields) ==
  [alias |-> alias, name |-> name, parents |-> parents, fields |-> fields,
   resolved |-> FALSE]

\* MaxiSchema.types is a Map: a sequence of type definitions in insertion order.
TypeIdx(types, alias) ==
  IF \E i \in 1..Len(types) : types[i].alias = alias
  THEN CHOOSE i \in 1..Len(types) : types[i].alias = alias
  ELSE 0

hasType(types, alias) == TypeIdx(types, alias) # 0
getType(types, alias) == types[TypeIdx(types, alias)]

\* Map.set: replaces the entry of an existing key in place, else appends.
addType(types, td) ==
  IF hasType(types, td.alias) THEN [types EXCEPT ![TypeIdx(types, td.alias)] = td]
  ELSE Append(types, td)

\* /^(Alias)(?::(TypeName))?(?:<\s*([^>]+?)\s*>)?\s*$/
matchHeader(header) ==
  LET al == IdentLen(header)
      r1 == From(header, al + 1)
      hasName == r1 # <<>> /\ r1[1] = ":" /\ NameLen(Tail(r1)) > 0
      nl == IF hasName THEN NameLen(Tail(r1)) ELSE 0
      r2 == IF hasName THEN From(r1, nl + 2) ELSE r1
      gt == IndexOf(r2, ">")
      hasPar == r2 # <<>> /\ r2[1] = "<" /\ gt > 2
      r3 == IF hasPar THEN From(r2, gt + 1) ELSE r2
  IN [ok |-> al > 0 /\ Trim(r3) = <<>>,
      alias |-> Slice(header, 1, al),
      name |-> IF hasName THEN Some(Slice(r1, 2, nl + 1)) ELSE None,
      parents |-> IF hasPar
                  THEN SelectSeqNonEmpty(MapTrim(SplitChar(Trim(Slice(r2, 2, gt - 1)), ",")))
                  ELSE <<>>]

\* the end of parseCompleteTypeDefinition: the fields are added and the type
\* is put into the schema
addParsedType(types, h, fl) ==
  IF fl.err # "" THEN [err |-> fl.err, noLine |-> fl.noLine, types |-> types]
  ELSE [err |-> "", noLine |-> FALSE,
        types |-> addType(types, TypeDef(h.alias, h.name, h.parents, fl.fields))]

defineType_NoDuplicateCheck(types, h, fieldsStr) ==
  IF ~h.ok THEN [err |-> "E005", noLine |-> FALSE, types |-> types]
  ELSE addParsedType(types, h, parseFieldList(fieldsStr))

\* parseCompleteTypeDefinition from the header match on: a header that does
\* not match is E005, an alias already in the schema is E002
defineType(types, h, fieldsStr) ==
  IF ~h.ok THEN [err |-> "E005", noLine |-> FALSE, types |-> types]
  ELSE IF hasType(types, h.alias) THEN [err |-> "E002", noLine |-> FALSE, types |-> types]
  ELSE addParsedType(types, h, parseFieldList(fieldsStr))

\* parseCompleteTypeDefinition: [err, noLine, types]
parseCompleteTypeDefinition(types, def) ==
  LET trimmed == Trim(def)
      openIdx == IndexOf(trimmed, "(")
      closeIdx == findMatchingParen(trimmed, openIdx)
  IN IF openIdx = 0 \/ closeIdx = 0
     THEN [err |-> "E005", noLine |-> FALSE, types |-> types]
     ELSE IF Trim(From(trimmed, closeIdx + 1)) # <<>>
     THEN [err |-> "E005", noLine |-> FALSE, types |-> types]
     ELSE defineType(types,
                     matchHeader(Trim(Slice(trimmed, 1, openIdx - 1))),
                     Trim(Slice(trimmed, openIdx + 1, closeIdx - 1)))

\* The three shape tests of parseTypeDefinition, on the trimmed first line.
AfterIdentWs(t) == TrimStart(From(t, IdentLen(t) + 1))

looksLikeAliasParen(t) ==
  IdentLen(t) > 0 /\ AfterIdentWs(t) # <<>> /\ AfterIdentWs(t)[1] = "("

\* <[^>]+> at the head of r: the rest after it, or r itself when absent
SkipAngle(r) ==
  IF r # <<>> /\ r[1] = "<" /\ IndexOf(r, ">") > 2 THEN From(r, IndexOf(r, ">") + 1) ELSE r

looksLikeExplicitType(t) ==
  LET r1 == AfterIdentWs(t)
      r2 == IF r1 # <<>> /\ r1[1] = ":" THEN TrimStart(Tail(r1)) ELSE <<>>
      r3 == TrimStart(SkipAngle(TrimStart(From(r2, NameLen(r2) + 1))))
  IN IdentLen(t) > 0 /\ NameLen(r2) > 0 /\ r3 # <<>> /\ r3[1] = "("

looksLikeInheritance(t) ==
  LET r1 == AfterIdentWs(t)
      r2 == TrimStart(SkipAngle(r1))
  IN IdentLen(t) > 0 /\ r1 # <<>> /\ r1[1] = "<" /\ SkipAngle(r1) # r1
     /\ r2 # <<>> /\ r2[1] = "("

\* /^(\d|-\d|~)/
looksLikeData(a) ==
  a # <<>> /\ (IsDigit(a[1]) \/ a[1] = "~" \/ (a[1] = "-" /\ Len(a) > 1 /\ IsDigit(a[2])))

\* The paren scan over the lines of a definition, from line i, character k.
RECURSIVE typeDefScan(_, _, _, _)
typeDefScan(lines, i, k, st) ==
  IF i > Len(lines) THEN [kind |-> "eof", i |-> i, saw |-> st.saw, depth |-> st.depth]
  ELSE IF k > Len(lines[i]) THEN typeDefScan(lines, i + 1, 1, st)
  ELSE LET ch == lines[i][k] IN
       IF st.esc THEN typeDefScan(lines, i, k + 1, [st EXCEPT !.esc = FALSE])
       ELSE IF st.str THEN
         typeDefScan(lines, i, k + 1,
           IF ch = BSLASH THEN [st EXCEPT !.esc = TRUE]
           ELSE IF ch = QUOTE THEN [st EXCEPT !.str = FALSE] ELSE st)
       ELSE IF ch = QUOTE THEN typeDefScan(lines, i, k + 1, [st EXCEPT !.str = TRUE])
       ELSE IF ch = "(" THEN
         typeDefScan(lines, i, k + 1, [st EXCEPT !.saw = TRUE, !.depth = @ + 1])
       ELSE IF ch = ")" THEN
         (IF ~st.saw THEN [kind |-> "unmatched", i |-> i, saw |-> FALSE, depth |-> 0]
          ELSE IF st.depth - 1 = 0 THEN [kind |-> "closed", i |-> i, saw |-> TRUE, depth |-> 0]
          ELSE typeDefScan(lines, i, k + 1, [st EXCEPT !.depth = @ - 1]))
       ELSE typeDefScan(lines, i, k + 1, st)

RECURSIVE JoinLinesNl(_, _, _)
JoinLinesNl(lines, from, to) ==
  IF from > to THEN <<>> ELSE lines[from] \o <<LF>> \o JoinLinesNl(lines, from + 1, to)

NotTaken(startIndex, types) ==
  [taken |-> FALSE, err |-> "", line |-> 0, noLine |-> FALSE,
   next |-> startIndex + 1, types |-> types]

\* parseTypeDefinition after the paren scan: an unmatched ')' is E005 at its
\* line, an unclosed '(' is E005 at the first line
completeTypeDefinition(types, startIndex, lastIndex, done) ==
  [taken |-> TRUE, err |-> done.err, line |-> startIndex, noLine |-> done.noLine,
   next |-> lastIndex + 1, types |-> done.types]

scannedTypeDefinition(types, lines, startIndex, sc) ==
  IF sc.kind = "unmatched"
  THEN [taken |-> TRUE, err |-> "E005", line |-> sc.i, noLine |-> FALSE,
        next |-> startIndex + 1, types |-> types]
  ELSE IF ~sc.saw THEN NotTaken(startIndex, types)
  ELSE IF sc.kind = "eof"
  THEN [taken |-> TRUE, err |-> "E005", line |-> startIndex, noLine |-> FALSE,
        next |-> startIndex + 1, types |-> types]
  ELSE completeTypeDefinition(types, startIndex, sc.i,
         parseCompleteTypeDefinition(types, JoinLinesNl(lines, startIndex, sc.i)))

\* parseTypeDefinition: [taken, err, line, noLine, next, types]; taken = FALSE
\* is the source's null (the line is no type definition and is passed over)
parseTypeDefinition(types, lines, startIndex) ==
  LET trimmed == Trim(lines[startIndex])
      plain == ~looksLikeExplicitType(trimmed) /\ ~looksLikeInheritance(trimmed)
  IN IF trimmed = <<>> THEN NotTaken(startIndex, types)
     ELSE IF trimmed[1] = "#" \/ trimmed[1] = "@" THEN NotTaken(startIndex, types)
     ELSE IF plain /\ looksLikeAliasParen(trimmed)
             /\ looksLikeData(TrimStart(From(trimmed, IndexOf(trimmed, "(") + 1)))
     THEN NotTaken(startIndex, types)
     ELSE IF plain /\ ~looksLikeAliasParen(trimmed) THEN NotTaken(startIndex, types)
     ELSE scannedTypeDefinition(types, lines, startIndex,
            typeDefScan(lines, startIndex, 1,
                        [str |-> FALSE, esc |-> FALSE, saw |-> FALSE, depth |-> 0]))


\* --------------------------------------------------------- inheritance

\* findIndex(f => f.name === name): the first index, 0 for none
FieldIdx(fields, name) ==
  IF \E i \in 1..Len(fields) : fields[i].name = name
  THEN CHOOSE i \in 1..Len(fields) :
         fields[i].name = name /\ \A j \in 1..(i - 1) : fields[j].name # name
  ELSE 0

\* the parent loop body: push each parent field whose name is not yet inherited
RECURSIVE addParentFields(_, _)
addParentFields(inherited, fields) ==
  IF fields = <<>> THEN inherited
  ELSE addParentFields(
         IF FieldIdx(inherited, Head(fields).name) = 0 THEN Append(inherited, Head(fields))
         ELSE inherited,
         Tail(fields))

\* the own-field loop that appends every own field
mergeOwnFields_Append(finalFields, own) == finalFields \o own

RECURSIVE mergeOwnFields_OwnFirst(_, _)
mergeOwnFields_OwnFirst(finalFields, own) ==
  IF finalFields = <<>> THEN own
  ELSE mergeOwnFields_OwnFirst(Tail(finalFields),
         IF FieldIdx(own, Head(finalFields).name) = 0 THEN Append(own, Head(finalFields))
         ELSE own)

\* the own-field loop: an own field replaces the inherited field of its name
\* in place, else is appended
RECURSIVE mergeOwnFields(_, _)
mergeOwnFields(finalFields, own) ==
  IF own = <<>> THEN finalFields
  ELSE LET idx == FieldIdx(finalFields, Head(own).name) IN
       mergeOwnFields(
         IF idx > 0 THEN [finalFields EXCEPT ![idx] = Head(own)]
         ELSE Append(finalFields, Head(own)),
         Tail(own))

RECURSIVE resolveType(_, _, _, _)
RECURSIVE resolveParents(_, _, _, _, _, _)

\* the loop over typeDef.parents from its j-th entry: [err, types, visited, inherited]
resolveParents(types, alias, j, visited, visiting, inherited) ==
  LET parents == getType(types, alias).parents IN
  IF j > Len(parents)
  THEN [err |-> "", types |-> types, visited |-> visited, inherited |-> inherited]
  ELSE IF ~hasType(types, parents[j])
  THEN [err |-> "E013", types |-> types, visited |-> visited, inherited |-> inherited]
  ELSE LET r == resolveType(types, parents[j], visited, visiting) IN
       IF r.err # ""
       THEN [err |-> r.err, types |-> r.types, visited |-> r.visited, inherited |-> inherited]
       ELSE resolveParents(r.types, alias, j + 1, r.visited, visiting,
              addParentFields(inherited, getType(r.types, parents[j]).fields))

\* resolveType without the resolved flag, prefixing the inherited fields
resolveType_Remerge(types, alias, visited, visiting) ==
  IF alias \in visited THEN [err |-> "", types |-> types, visited |-> visited]
  ELSE IF alias \in visiting THEN [err |-> "E010", types |-> types, visited |-> visited]
  ELSE IF ~hasType(types, alias)
  THEN [err |-> "", types |-> types, visited |-> visited]
  ELSE LET r == resolveParents(types, alias, 1, visited, visiting \union {alias}, <<>>) IN
       IF r.err # "" THEN [err |-> r.err, types |-> r.types, visited |-> r.visited]
       ELSE [err |-> "",
             types |-> [r.types EXCEPT ![TypeIdx(r.types, alias)] =
                          [@ EXCEPT !.fields = r.inherited \o @,
                                    !.resolved = TRUE]],
             visited |-> r.visited \union {alias}]

\* resolveType: [err, types, visited]
resolveType(types, alias, visited, visiting) ==
  IF alias \in visited THEN [err |-> "", types |-> types, visited |-> visited]
  ELSE IF alias \in visiting THEN [err |-> "E010", types |-> types, visited |-> visited]
  ELSE IF ~hasType(types, alias) \/ getType(types, alias).resolved
  THEN [err |-> "", types |-> types, visited |-> visited]
  ELSE LET r == resolveParents(types, alias, 1, visited, visiting \union {alias}, <<>>) IN
       IF r.err # "" THEN [err |-> r.err, types |-> r.types, visited |-> r.visited]
       ELSE [err |-> "",
             types |-> [r.types EXCEPT ![TypeIdx(r.types, alias)] =
                          [@ EXCEPT !.fields = mergeOwnFields(r.inherited, @),
                                    !.resolved = TRUE]],
             visited |-> r.visited \union {alias}]

RECURSIVE resolveAllFrom(_, _, _)
resolveAllFrom(types, i, visited) ==
  IF i > Len(types) THEN [err |-> "", types |-> types]
  ELSE LET r == resolveType(types, types[i].alias, visited, {}) IN
       IF r.err # "" THEN [err |-> r.err, types |-> r.types]
       ELSE resolveAllFrom(r.types, i + 1, r.visited)

\* resolveInheritance: [err, types]; its errors carry neither line nor filename
resolveInheritance(types) == resolveAllFrom(types, 1, {})


\* -------------------------------------------------------------- records

UpperSeq == <<"A","B","C","D","E","F","G","H","I","J","K","L","M",
              "N","O","P","Q","R","S","T","U","V","W","X","Y","Z">>
LowerSeq == <<"a","b","c","d","e","f","g","h","i","j","k","l","m",
              "n","o","p","q","r","s","t","u","v","w","x","y","z">>

\* String.prototype.toLowerCase
ToLowerChar(c) ==
  IF c \in Upper THEN LowerSeq[CHOOSE i \in 1..26 : UpperSeq[i] = c] ELSE c
toLowerCase(s) == [i \in 1..Len(s) |-> ToLowerChar(s[i])]

\* RecordParser.splitTopLevel on '|': the depths are not clamped at zero
RECURSIVE recordSplitFrom(_, _, _, _)
recordSplitFrom(str, i, partStart, st) ==
  IF i > Len(str) THEN <<From(str, partStart)>>
  ELSE LET ch == str[i] IN
       IF st.esc THEN recordSplitFrom(str, i + 1, partStart, [st EXCEPT !.esc = FALSE])
       ELSE IF st.str THEN
         recordSplitFrom(str, i + 1, partStart,
           IF ch = BSLASH THEN [st EXCEPT !.esc = TRUE]
           ELSE IF ch = QUOTE THEN [st EXCEPT !.str = FALSE] ELSE st)
       ELSE IF ch = QUOTE THEN recordSplitFrom(str, i + 1, partStart, [st EXCEPT !.str = TRUE])
       ELSE LET st2 == IF ch = "(" THEN [st EXCEPT !.p = @ + 1]
                       ELSE IF ch = ")" THEN [st EXCEPT !.p = @ - 1]
                       ELSE IF ch = "[" THEN [st EXCEPT !.b = @ + 1]
                       ELSE IF ch = "]" THEN [st EXCEPT !.b = @ - 1]
                       ELSE IF ch = "{" THEN [st EXCEPT !.c = @ + 1]
                       ELSE IF ch = "}" THEN [st EXCEPT !.c = @ - 1]
                       ELSE st
            IN IF ch = "|" /\ AtTop(st2)
               THEN <<Slice(str, partStart, i - 1)>> \o recordSplitFrom(str, i + 1, i + 1, st2)
               ELSE recordSplitFrom(str, i + 1, partStart, st2)

recordSplitTopLevel(str) == recordSplitFrom(str, 1, 1, ScanInit)

\* fastTrim strips SP, HTAB, LF and CR
fastTrim(s) == Trim(s)

\* parseQuotedString: the quotes dropped, then five global replacements in order
parseQuotedString(str) ==
  ReplaceAll2(ReplaceAll2(ReplaceAll2(ReplaceAll2(ReplaceAll2(
    Slice(str, 2, Len(str) - 1),
    BSLASH, "n", LF), BSLASH, "r", CR), BSLASH, "t", TAB), BSLASH, QUOTE, QUOTE),
    BSLASH, BSLASH, BSLASH)

\* detectNumberKind: 0 not numeric, 1 int, 2 decimal, 3 int with a trailing dot
detectNumberKind(s) ==
  LET body == IF s # <<>> /\ s[1] = "-" THEN Tail(s) ELSE s
      ip == LeadingDigits(body)
      rest == From(body, Len(ip) + 1)
  IN IF s = <<>> \/ body = <<>> \/ ip = <<>> THEN 0
     ELSE IF rest = <<>> THEN 1
     ELSE IF rest[1] # "." THEN 0
     ELSE IF Len(rest) = 1 THEN 3
     ELSE IF AllDigits(Tail(rest)) THEN 2
     ELSE 0

IsBase64Char(c) == c \in Upper \union Lower \union Digits \union {"+", "/"}

looksLikeBase64(s) ==
  LET pad == Cardinality({i \in 1..Len(s) : s[i] = "="}) IN
  /\ s # <<>>
  /\ \A i \in 1..Len(s) :
       s[i] # "=" => (IsBase64Char(s[i]) /\ \A j \in 1..(i - 1) : s[j] # "=")
  /\ pad <= 2

RECURSIVE Repeat(_, _)
Repeat(c, n) == IF n = 0 THEN <<>> ELSE <<c>> \o Repeat(c, n - 1)

NoField == [some |-> FALSE, f |-> FieldDef(<<>>, None, None, <<>>, None)]
SomeField(f) == [some |-> TRUE, f |-> f]

TextInt == <<"i","n","t">>
TextBool == <<"b","o","o","l">>
TextDecimal == <<"d","e","c","i","m","a","l">>
TextBytes == <<"b","y","t","e","s">>
TextBase64 == <<"b","a","s","e","6","4">>
TextStr == <<"s","t","r">>
TextTrue == <<"t","r","u","e">>
TextFalse == <<"f","a","l","s","e">>

\* parseFieldValue for a token that is no array, map or inline object (the
\* record tokens of the modelled inputs are scalars and quoted strings).
parseFieldValue(valueStr, fieldDef, mode) ==
  LET c0 == valueStr[1]
      cLast == valueStr[Len(valueStr)]
      typeExpr == IF fieldDef.some /\ fieldDef.f.typeExpr.some THEN fieldDef.f.typeExpr.v
                  ELSE TextStr
      base64 == fieldDef.some /\ fieldDef.f.annotation = Some(TextBase64)
      nk == detectNumberKind(valueStr)
      asInt == NumV(ParseIntText(valueStr), 0)
      asFloat == ParseFloatPrefix(valueStr).v
      asDotInt == NumV(ParseIntText(Slice(valueStr, 1, Len(valueStr) - 1)), 0)
      mod == Len(valueStr) % 4
  IN IF valueStr = <<>>
     THEN (IF fieldDef.some /\ fieldDef.f.defaultValue.some
           THEN StrV(fieldDef.f.defaultValue.v) ELSE NullV)
     ELSE IF valueStr = <<"~">> THEN NullV
     ELSE IF c0 = QUOTE /\ cLast = QUOTE THEN StrV(parseQuotedString(valueStr))
     ELSE IF mode # "strict" /\ typeExpr = TextBytes /\ base64
     THEN (IF looksLikeBase64(valueStr) /\ mod # 0
           THEN StrV(valueStr \o Repeat("=", IF mod = 1 THEN 3 ELSE IF mod = 2 THEN 2 ELSE 1))
           ELSE StrV(valueStr))
     ELSE IF typeExpr = TextBool
     THEN (IF valueStr = <<"1">> \/ valueStr = TextTrue THEN BoolV(TRUE)
           ELSE IF valueStr = <<"0">> \/ valueStr = TextFalse THEN BoolV(FALSE)
           ELSE StrV(valueStr))
     ELSE IF typeExpr = TextInt THEN (IF nk = 1 THEN asInt ELSE StrV(valueStr))
     ELSE IF typeExpr = TextDecimal
     THEN (IF nk = 3 THEN asDotInt
           ELSE IF nk = 1 \/ nk = 2 THEN asFloat
           ELSE StrV(valueStr))
     ELSE IF mode # "strict" /\ nk = 1 THEN asInt
     ELSE IF mode # "strict" /\ nk = 2 THEN asFloat
     ELSE IF mode # "strict" /\ nk = 3 THEN asDotInt
     ELSE StrV(valueStr)

IsSimple(valuesStr) ==
  \A i \in 1..Len(valuesStr) : valuesStr[i] \notin {QUOTE, "(", ")", "[", "]", "{", "}"}

\* the token list of parseFieldValues: the fast path neither tracks nesting nor trims
valueStrings(valuesStr) ==
  IF IsSimple(valuesStr) THEN SplitChar(valuesStr, "|")
  ELSE MapTrim(recordSplitTopLevel(valuesStr))

\* parseFieldValues; fields is <<>> for a record without a type definition
parseFieldValues(valuesStr, fields, mode) ==
  LET toks == valueStrings(valuesStr) IN
  [i \in 1..Len(toks) |->
     parseFieldValue(toks[i],
                     IF i <= Len(fields) THEN SomeField(fields[i]) ELSE NoField,
                     mode)]


\* Array.prototype.splice(idx, 0, v) on a copy; idx is 1-based here
InsertAt(seq, idx, v) == Slice(seq, 1, idx - 1) \o <<v>> \o From(seq, idx)

\* the `type` heuristic that prefers the name of the type to the default
inferTypeValue_NameFirst(typeDef, values) ==
  LET typeFieldIndex == FieldIdx(typeDef.fields, <<"t","y","p","e">>)
      typeFieldDef == typeDef.fields[typeFieldIndex]
      inferred == IF typeDef.name.some /\ typeDef.name.v # <<>>
                  THEN toLowerCase(typeDef.name.v)
                  ELSE IF typeFieldDef.defaultValue.some THEN typeFieldDef.defaultValue.v
                  ELSE toLowerCase(typeDef.alias)
  IN IF typeFieldIndex # 0 /\ Len(values) = Len(typeDef.fields) - 1
     THEN InsertAt(values, typeFieldIndex, StrV(inferred))
     ELSE values

\* the lax-mode `type` heuristic of parseSingleRecord
inferTypeValue(typeDef, values) ==
  LET typeFieldIndex == FieldIdx(typeDef.fields, <<"t","y","p","e">>)
      typeFieldDef == typeDef.fields[typeFieldIndex]
      inferred == IF typeFieldDef.defaultValue.some THEN typeFieldDef.defaultValue.v
                  ELSE IF typeDef.name.some /\ typeDef.name.v # <<>>
                  THEN toLowerCase(typeDef.name.v)
                  ELSE toLowerCase(typeDef.alias)
  IN IF typeFieldIndex # 0 /\ Len(values) = Len(typeDef.fields) - 1
     THEN InsertAt(values, typeFieldIndex, StrV(inferred))
     ELSE values

\* the back-fill loop body without the declared default
backfillValue_NoDefault(field, values, i) ==
  IF i > Len(values) \/ values[i] = StrV(<<>>) THEN NullV ELSE values[i]

\* the back-fill loop body: the value of field i before the required check
backfillValue(field, values, i) ==
  IF i > Len(values) \/ values[i] = StrV(<<>>)
  THEN (IF field.defaultValue.some THEN StrV(field.defaultValue.v) ELSE NullV)
  ELSE values[i]

\* the back-fill loop running to the end of the supplied values
finalValuesOf_KeepExcess(fields, values) ==
  [i \in 1..Len(fields) |-> backfillValue(fields[i], values, i)]
    \o From(values, Len(fields) + 1)

\* the back-fill loop of parseSingleRecord: one value per field of the type
finalValuesOf(fields, values) ==
  [i \in 1..Len(fields) |-> backfillValue(fields[i], values, i)]

\* one "E011" per required field whose back-filled value is null, in field order
requiredNullWarnings(fields, finalValues) ==
  LET idx == {i \in 1..Len(fields) : isRequired(fields[i]) /\ finalValues[i] = NullV}
  IN [k \in 1..Cardinality(idx) |-> "E011"]

\* the back-fill loop with a required check that is never fatal
backfillRecord_NeverFatal(mode, fields, values) ==
  [err |-> "",
   warns |-> requiredNullWarnings(fields, finalValuesOf(fields, values)),
   values |-> finalValuesOf(fields, values)]

\* the back-fill loop with its required check: fatal in strict mode, one
\* warning per field otherwise
backfillRecord(mode, fields, values) ==
  LET finalValues == finalValuesOf(fields, values)
      warns == requiredNullWarnings(fields, finalValues)
  IN IF mode = "strict" /\ warns # <<>>
     THEN [err |-> "E011", warns |-> <<>>, values |-> <<>>]
     ELSE [err |-> "", warns |-> warns, values |-> finalValues]

\* the field count check without its upper bound
checkFieldCount_NoUpperBound(mode, fields, values) ==
  IF mode = "strict" /\ Len(values) < Len(fields)
     /\ \E i \in (Len(values) + 1)..Len(fields) :
          isRequired(fields[i]) /\ ~fields[i].defaultValue.some
  THEN [err |-> "E011", warns |-> <<>>, values |-> <<>>]
  ELSE backfillRecord(mode, fields, values)

\* the strict-mode field count check, then the back-fill
checkFieldCount(mode, fields, values) ==
  IF mode = "strict" /\ Len(values) < Len(fields)
     /\ \E i \in (Len(values) + 1)..Len(fields) :
          isRequired(fields[i]) /\ ~fields[i].defaultValue.some
  THEN [err |-> "E011", warns |-> <<>>, values |-> <<>>]
  ELSE IF mode = "strict" /\ Len(values) > Len(fields)
  THEN [err |-> "E006", warns |-> <<>>, values |-> <<>>]
  ELSE backfillRecord(mode, fields, values)

\* parseSingleRecord for an alias of the schema, from the parsed tokens on
typedRecord(typeDef, mode, parsed) ==
  checkFieldCount(mode, typeDef.fields,
                  IF mode # "strict" THEN inferTypeValue(typeDef, parsed) ELSE parsed)

\* buildNameIndex: the first alias of each type name, in type order
buildNameIndex(types) ==
  LET named == {i \in 1..Len(types) :
                  /\ types[i].name.some
                  /\ \A j \in 1..(i - 1) : types[j].name # types[i].name}
  IN {<<types[i].name.v, types[i].alias>> : i \in named}

\* the object parseInlineObject returns for a known type, and the
\* { values: [...] } it returns otherwise
ObjV(names, vals) ==
  [k |-> "obj", n |-> 0, e |-> 0, s |-> <<>>, names |-> names, vals |-> vals]
ValuesV(vals) ==
  [k |-> "values", n |-> 0, e |-> 0, s |-> <<>>, names |-> <<>>, vals |-> vals]

Primitives == {TextStr, TextInt, TextDecimal, TextBool, TextBytes, <<"m","a","p">>}

\* schema.resolveTypeAlias: an alias as it is, a name as its alias
resolveTypeAlias(types, nameOrAlias) ==
  IF nameOrAlias = <<>> THEN None
  ELSE IF hasType(types, nameOrAlias) THEN Some(nameOrAlias)
  ELSE IF \E q \in buildNameIndex(types) : q[1] = nameOrAlias
  THEN Some((CHOOSE q \in buildNameIndex(types) : q[1] = nameOrAlias)[2])
  ELSE None

\* getInlineObjectTypeAlias for a type expression that is neither an array
\* nor a map type (the field types of the inputs are aliases, names and
\* primitives)
getInlineObjectTypeAlias(types, typeExpr) ==
  IF ~typeExpr.some \/ typeExpr.v = <<>> THEN None
  ELSE IF Trim(typeExpr.v) \in Primitives THEN None
  ELSE IF resolveTypeAlias(types, Trim(typeExpr.v)).some
  THEN resolveTypeAlias(types, Trim(typeExpr.v))
  ELSE Some(Trim(typeExpr.v))

\* the loop of parseInlineObject over the fields of the type
inlineValuesOf(fields, values) ==
  [i \in 1..Len(fields) |->
     IF i > Len(values) \/ values[i] = StrV(<<>>)
     THEN (IF fields[i].defaultValue.some THEN StrV(fields[i].defaultValue.v) ELSE NullV)
     ELSE values[i]]

\* parseInlineObject: [err, warns, v]. The content is parsed by
\* parseFieldValues; an inline object inside an inline object is beyond the
\* inputs.
parseInlineObject(types, mode, objStr, fieldDef) ==
  LET inner == Slice(objStr, 2, Len(objStr) - 1)
      typeAlias == getInlineObjectTypeAlias(types,
                     IF fieldDef.some THEN fieldDef.f.typeExpr ELSE None)
  IN IF ~typeAlias.some
     THEN [err |-> "", warns |-> <<>>, v |-> ValuesV(parseFieldValues(inner, <<>>, mode))]
     ELSE IF ~hasType(types, typeAlias.v)
     THEN (IF mode = "strict" THEN [err |-> "E003", warns |-> <<>>, v |-> NullV]
           ELSE [err |-> "", warns |-> <<"E003">>,
                 v |-> ValuesV(parseFieldValues(inner, <<>>, mode))])
     ELSE [err |-> "", warns |-> <<>>,
           v |-> ObjV([i \in 1..Len(getType(types, typeAlias.v).fields) |->
                        getType(types, typeAlias.v).fields[i].name],
                      inlineValuesOf(getType(types, typeAlias.v).fields,
                        parseFieldValues(inner, getType(types, typeAlias.v).fields, mode)))]

\* parseFieldValue with its inline object branch: [err, warns, v]
parseToken(types, mode, valueStr, fieldDef) ==
  IF valueStr # <<>> /\ valueStr[1] = "(" /\ valueStr[Len(valueStr)] = ")"
  THEN parseInlineObject(types, mode, valueStr, fieldDef)
  ELSE [err |-> "", warns |-> <<>>, v |-> parseFieldValue(valueStr, fieldDef, mode)]

RECURSIVE collectTokens(_, _, _, _, _)
\* the loop of parseFieldValues from token i on: the first error ends it
collectTokens(types, mode, toks, fields, i) ==
  IF i > Len(toks) THEN [err |-> "", warns |-> <<>>, values |-> <<>>]
  ELSE LET r == parseToken(types, mode, toks[i],
                           IF i <= Len(fields) THEN SomeField(fields[i]) ELSE NoField)
           rest == collectTokens(types, mode, toks, fields, i + 1)
       IN IF r.err # "" THEN [err |-> r.err, warns |-> <<>>, values |-> <<>>]
          ELSE IF rest.err # "" THEN rest
          ELSE [err |-> "", warns |-> r.warns \o rest.warns,
                values |-> <<r.v>> \o rest.values]

\* parseFieldValues of a record body: [err, warns, values]
parseRecordValues(types, mode, valuesStr, fields) ==
  collectTokens(types, mode, valueStrings(valuesStr), fields, 1)

\* the rest of parseSingleRecord once the tokens are parsed
typedRecordFrom(typeDef, mode, pv) ==
  IF pv.err # "" THEN pv
  ELSE IF typedRecord(typeDef, mode, pv.values).err # ""
  THEN typedRecord(typeDef, mode, pv.values)
  ELSE [typedRecord(typeDef, mode, pv.values) EXCEPT !.warns = pv.warns \o @]

untypedRecordFrom(first, pv) ==
  IF pv.err # "" THEN pv ELSE [pv EXCEPT !.warns = first \o @]

\* parseSingleRecord that records no warning for an alias without a type
parseSingleRecord_SilentUnknown(types, mode, alias, valuesStr) ==
  IF ~hasType(types, alias)
  THEN (IF mode = "strict" THEN [err |-> "E003", warns |-> <<>>, values |-> <<>>]
        ELSE untypedRecordFrom(<<>>, parseRecordValues(types, mode, valuesStr, <<>>)))
  ELSE typedRecordFrom(getType(types, alias), mode,
         parseRecordValues(types, mode, valuesStr, getType(types, alias).fields))

\* parseSingleRecord: [err, warns, values]; every error it raises carries the
\* record's line and the filename option
parseSingleRecord(types, mode, alias, valuesStr) ==
  IF ~hasType(types, alias)
  THEN (IF mode = "strict" THEN [err |-> "E003", warns |-> <<>>, values |-> <<>>]
        ELSE untypedRecordFrom(<<"E003">>, parseRecordValues(types, mode, valuesStr, <<>>)))
  ELSE typedRecordFrom(getType(types, alias), mode,
         parseRecordValues(types, mode, valuesStr, getType(types, alias).fields))

\* the inner loop of RecordParser.parse over the parenthesised body, from
\* position i with parenDepth 1: where it stops, the depths and the line there
RECURSIVE recordBodyScan(_, _, _, _)
recordBodyScan(text, i, st, line) ==
  IF i > Len(text) THEN [i |-> i, st |-> st, line |-> line]
  ELSE LET c == text[i]
           ln == IF c = LF THEN line + 1 ELSE line
       IN IF st.esc THEN recordBodyScan(text, i + 1, [st EXCEPT !.esc = FALSE], ln)
          ELSE IF st.str THEN
            recordBodyScan(text, i + 1,
              IF c = BSLASH THEN [st EXCEPT !.esc = TRUE]
              ELSE IF c = QUOTE THEN [st EXCEPT !.str = FALSE] ELSE st, ln)
          ELSE IF c = QUOTE THEN recordBodyScan(text, i + 1, [st EXCEPT !.str = TRUE], ln)
          ELSE IF c = ")" /\ st.p - 1 = 0
          THEN [i |-> i, st |-> [st EXCEPT !.p = 0], line |-> ln]
          ELSE recordBodyScan(text, i + 1,
                 IF c = "(" THEN [st EXCEPT !.p = @ + 1]
                 ELSE IF c = ")" THEN [st EXCEPT !.p = @ - 1]
                 ELSE IF c = "[" THEN [st EXCEPT !.b = @ + 1]
                 ELSE IF c = "]" THEN [st EXCEPT !.b = Max0(@ - 1)]
                 ELSE IF c = "{" THEN [st EXCEPT !.c = @ + 1]
                 ELSE IF c = "}" THEN [st EXCEPT !.c = Max0(@ - 1)]
                 ELSE st, ln)

RECURSIVE SkipBlanks(_, _)
SkipBlanks(text, i) ==
  IF i <= Len(text) /\ text[i] \in {SP, TAB, CR} THEN SkipBlanks(text, i + 1) ELSE i

\* the outer loop of RecordParser.parse from position i, up to and including
\* the next record: [kind, alias, valuesStr, recordLine, next, line], kind is
\* "end" (no record left), "unclosed" (the E005 of line 125) or "record"
RECURSIVE scanRecord(_, _, _)
scanRecord(text, i, line) ==
  IF i > Len(text)
  THEN [kind |-> "end", alias |-> <<>>, valuesStr |-> <<>>, recordLine |-> line,
        next |-> i, line |-> line]
  ELSE IF text[i] = LF THEN scanRecord(text, i + 1, line + 1)
  ELSE IF ~IsIdentStart(text[i]) THEN scanRecord(text, i + 1, line)
  ELSE LET aliasEnd == i + IdentCharsLen(From(text, i + 1))
           open == SkipBlanks(text, aliasEnd + 1)
           alias == Slice(text, i, aliasEnd)
           body == recordBodyScan(text, open + 1, [ScanInit EXCEPT !.p = 1], line)
       IN IF open > Len(text) \/ text[open] # "(" THEN scanRecord(text, open, line)
          ELSE IF body.i > Len(text) \/ body.st.p # 0 \/ body.st.b # 0 \/ body.st.c # 0
          THEN [kind |-> "unclosed", alias |-> alias, valuesStr |-> <<>>,
                recordLine |-> line, next |-> body.i, line |-> body.line]
          ELSE [kind |-> "record", alias |-> alias,
                valuesStr |-> Slice(text, open + 1, body.i - 1),
                recordLine |-> line, next |-> body.i + 1, line |-> body.line]


\* ---------------------------------------------------------------- dump

\* /[|()\[\]{}~,:]|\s/.test(str)
needsQuoting(str) ==
  \E i \in 1..Len(str) :
    str[i] \in {"|", "(", ")", "[", "]", "{", "}", "~", ",", ":"} \/ IsWs(str[i])

\* escapeString: five global replacements, the backslash first
escapeString(str) ==
  ReplaceAll1(ReplaceAll1(ReplaceAll1(ReplaceAll1(ReplaceAll1(
    str, BSLASH, <<BSLASH, BSLASH>>), QUOTE, <<BSLASH, QUOTE>>), LF, <<BSLASH, "n">>),
    CR, <<BSLASH, "r">>), TAB, <<BSLASH, "t">>)

quoteIfNeeded(str) ==
  IF needsQuoting(str) THEN <<QUOTE>> \o escapeString(str) \o <<QUOTE>> ELSE str

\* dumpValue of a null, string, boolean or number
dumpValue(value) ==
  IF value.k = "null" THEN <<"~">>
  ELSE IF value.k = "str" THEN quoteIfNeeded(value.s)
  ELSE IF value.k = "bool" THEN (IF value.n = 1 THEN TextTrue ELSE TextFalse)
  ELSE NumToText(value)

RECURSIVE MapDumpValue(_)
MapDumpValue(values) ==
  IF values = <<>> THEN <<>> ELSE <<dumpValue(values[1])>> \o MapDumpValue(Tail(values))

\* dumpRecord, single-line form
dumpRecord(record) ==
  record.alias \o <<"(">> \o Join(MapDumpValue(record.values), <<"|">>) \o <<")">>

\* the constraint switch of dumpField
dumpConstraint(c) ==
  IF c.type = "required" THEN <<"!">>
  ELSE IF c.type = "id" THEN <<"i", "d">>
  ELSE IF c.type = "comparison"
  THEN c.op \o (IF c.val.k = "num" THEN NumToText(c.val) ELSE c.val.s)
  ELSE IF c.type = "pattern" THEN PatternPrefix \o c.val.s
  ELSE IF c.type = "mime"
  THEN (IF Len(c.list) > 1 THEN MimePrefix \o <<"[">> \o Join(c.list, <<",">>) \o <<"]">>
        ELSE MimePrefix \o c.list[1])
  ELSE IF c.type = "decimal-precision" THEN c.val.s
  ELSE IF c.type = "exact-length" THEN <<"=">> \o NumToText(c.val)
  ELSE <<>>

RECURSIVE MapDumpConstraint(_)
MapDumpConstraint(cs) ==
  IF cs = <<>> THEN <<>> ELSE <<dumpConstraint(cs[1])>> \o MapDumpConstraint(Tail(cs))

\* dumpField: name, :type, @annotation, (constraints), =default
dumpField(field) ==
  LET constraintStrs == SelectSeqNonEmpty(MapDumpConstraint(field.constraints)) IN
  field.name
  \o (IF field.typeExpr.some THEN <<":">> \o field.typeExpr.v ELSE <<>>)
  \o (IF field.annotation.some THEN <<"@">> \o field.annotation.v ELSE <<>>)
  \o (IF constraintStrs # <<>> THEN <<"(">> \o Join(constraintStrs, <<",">>) \o <<")">>
      ELSE <<>>)
  \o (IF field.defaultValue.some THEN <<"=">> \o quoteIfNeeded(field.defaultValue.v)
      ELSE <<>>)

RECURSIVE MapDumpField(_)
MapDumpField(fields) ==
  IF fields = <<>> THEN <<>> ELSE <<dumpField(fields[1])>> \o MapDumpField(Tail(fields))

\* dumpTypeDef, single-line form
dumpTypeDef(td) ==
  td.alias
  \o (IF td.name.some THEN <<":">> \o td.name.v ELSE <<>>)
  \o (IF td.parents # <<>> THEN <<"<">> \o Join(td.parents, <<",">>) \o <<">">> ELSE <<>>)
  \o <<"(">> \o Join(MapDumpField(td.fields), <<"|">>) \o <<")">>

TextVersion100 == <<"1", ".", "0", ".", "0">>
DirVersion == <<"@","v","e","r","s","i","o","n",":">>
DirModeStrict == <<"@","m","o","d","e",":","s","t","r","i","c","t">>
DirSchema == <<"@","s","c","h","e","m","a",":">>
Separator == <<"#", "#", "#">>

RECURSIVE MapImportLine(_)
MapImportLine(imports) ==
  IF imports = <<>> THEN <<>> ELSE <<DirSchema \o imports[1]>> \o MapImportLine(Tail(imports))

RECURSIVE MapDumpTypeDef(_)
MapDumpTypeDef(types) ==
  IF types = <<>> THEN <<>> ELSE <<dumpTypeDef(types[1])>> \o MapDumpTypeDef(Tail(types))

RECURSIVE MapDumpRecord(_)
MapDumpRecord(recs) ==
  IF recs = <<>> THEN <<>> ELSE <<dumpRecord(recs[1])>> \o MapDumpRecord(Tail(recs))

\* dumpMaxi of a parse result with the default options
dumpMaxiFromParseResult(sch, recs) ==
  LET directives ==
        (IF sch.version # <<>> /\ sch.version # TextVersion100
         THEN <<DirVersion \o sch.version>> ELSE <<>>)
        \o (IF sch.mode = "strict" THEN <<DirModeStrict>> ELSE <<>>)
        \o MapImportLine(sch.imports)
      withTypes ==
        IF sch.types # <<>>
        THEN directives \o (IF directives # <<>> THEN << <<>> >> ELSE <<>>)
             \o MapDumpTypeDef(sch.types)
        ELSE directives
      head == IF withTypes # <<>> THEN Append(withTypes, Separator) ELSE withTypes
  IN Join(head \o MapDumpRecord(recs), <<LF>>)


\* ------------------------------------------------------------- sections

RECURSIVE SkipSpTab(_, _)
SkipSpTab(text, i) ==
  IF i <= Len(text) /\ text[i] \in {SP, TAB} THEN SkipSpTab(text, i + 1) ELSE i

\* where a multiline `^` matches: the start, and after each line terminator
LineStarts(text) == {1} \union {i + 1 : i \in {j \in 1..Len(text) : text[j] \in {LF, CR}}}

\* /^[ \t]*###[ \t]*(?:\r?\n|$)/m tried at line start i: the match length, 0 for none
separatorMatchLen(text, i) ==
  LET h == SkipSpTab(text, i)
      t == SkipSpTab(text, h + 3)
  IN IF h + 2 > Len(text) \/ Slice(text, h, h + 2) # Separator THEN 0
     ELSE IF t > Len(text) THEN t - i
     ELSE IF text[t] = LF THEN t + 1 - i
     ELSE IF text[t] = CR THEN (IF t < Len(text) /\ text[t + 1] = LF THEN t + 2 - i ELSE t - i)
     ELSE 0

\* the three schema marks looked for when there is no separator
hasDirective(text) ==
  \E i \in LineStarts(text) :
    LET h == SkipSpTab(text, i) IN h <= Len(text) /\ text[h] = "@"

hasExplicitTypeDef(text) ==
  \E i \in LineStarts(text) :
    LET h == SkipSpTab(text, i)
        n == IdentLen(From(text, h))
        c == SkipSpTab(text, h + n)
    IN n > 0 /\ c <= Len(text) /\ text[c] = ":"

hasInheritanceTypeDef(text) ==
  \E i \in LineStarts(text) :
    LET h == SkipSpTab(text, i)
        n == IdentLen(From(text, h))
        lt == SkipSpTab(text, h + n)
        rest == From(text, lt)
        after == SkipAngle(rest)
        par == SkipSpTab(after, 1)
    IN n > 0 /\ rest # <<>> /\ rest[1] = "<" /\ after # rest
       /\ par <= Len(after) /\ after[par] = "("

\* splitSections: [schemaSection, recordsSection]; an empty recordsSection
\* stands for both null and '' (parseMaxi tests it for truthiness only)
splitSections(input) ==
  LET starts == {i \in LineStarts(input) : separatorMatchLen(input, i) > 0}
      index == CHOOSE i \in starts : \A j \in starts : i <= j
  IN IF starts # {}
     THEN [schemaSection |-> Trim(Slice(input, 1, index - 1)),
           recordsSection |-> Trim(From(input, index + separatorMatchLen(input, index)))]
     ELSE IF hasDirective(input) \/ hasExplicitTypeDef(input) \/ hasInheritanceTypeDef(input)
     THEN [schemaSection |-> input, recordsSection |-> <<>>]
     ELSE [schemaSection |-> <<>>, recordsSection |-> input]

\* ----------------------------------------------------------- directives

\* /^@([a-zA-Z_][a-zA-Z0-9_-]*):(.+)$/ on a trimmed line: [ok, name, value]
matchDirective(line) ==
  LET n == IdentLen(Tail(line))
      value == From(line, n + 3)
  IN [ok |-> n > 0 /\ Len(line) > n + 2 /\ line[n + 2] = ":"
             /\ \A i \in 1..Len(value) : value[i] \notin {LF, CR},
      name |-> Slice(line, 2, n + 1),
      value |-> Trim(value)]

\* /^\d+\.\d+\.\d+$/
IsSemver(v) ==
  LET a == LeadingDigits(v)
      r1 == From(v, Len(a) + 1)
      b == LeadingDigits(Tail(r1))
      r2 == From(r1, Len(b) + 2)
  IN a # <<>> /\ r1 # <<>> /\ r1[1] = "." /\ b # <<>>
     /\ r2 # <<>> /\ r2[1] = "." /\ AllDigits(Tail(r2))

TextVersion == <<"v","e","r","s","i","o","n">>
TextMode == <<"m","o","d","e">>
TextSchema == <<"s","c","h","e","m","a">>
TextStrict == <<"s","t","r","i","c","t">>
TextLax == <<"l","a","x">>


\* -------------------------------------------------------- state machine

VARIABLES
  input,         \* the text handed to parseMaxi
  options,       \* [mode, filename, hasLoader]: the options of the call
  files,         \* what options.loadSchema answers for each path
  pc,            \* "start", "schema", "records", "done" or "failed"
  frames,        \* the SchemaParser.parse invocations in progress, innermost last
  loadingStack,  \* SchemaParser.loadingStack, shared by all frames
  schema,        \* result.schema
  records,       \* result.records
  warnings,      \* result.warnings
  err,           \* the MaxiError thrown out of parseMaxi, code "" while none
  scan,          \* RecordParser.parse: [text, i, line]
  declared,      \* history: every type definition as written, in parse order
  scanned,       \* history: [alias, valuesStr] of every record handed to parseSingleRecord
  round,         \* 1 for the parse of the input, 2 for the parse of its dump
  first,         \* the records of round 1, kept for comparison in round 2
  events,        \* history: the @schema directives processed and the loader calls made
  awaiting,      \* the call stands at an await: another call may run before it resumes
  pair,          \* [phase, other, solo]: a second parseMaxi call, when there is one
  dpc,           \* the dumper: "idle"; "start", "collect", "emit", "done" in dumpMaxi
                 \* on objects; "escape", "escaped", "read" for one quoted string
  heap,          \* the objects handed to dumpMaxi, by reference
  data,          \* input.data: the rows of each alias, as references
  allTypes,      \* normalizeTypes(schema.types): the types by alias
  collectRefs,   \* options.collectReferences
  recordsToDump, \* the Map alias -> rows, in insertion order
  seenObjects,   \* the Set of objects the traversal has met
  work,          \* the worklist of collectReferencedObjectsIterative
  out,           \* the output lines
  promoted,      \* history: the objects promotion pushed onto a bucket, in order
  subject,       \* a string the dumper emits in quotes
  quoted,        \* '"' + escapeString(subject) + '"', once written
  unquoted       \* parseQuotedString(quoted), once read back

parseVars == <<input, options, files, pc, frames, loadingStack, schema, records,
               warnings, err, scan, declared, scanned, round, first, events, awaiting, pair>>

dumpVars == <<dpc, heap, data, allTypes, collectRefs, recordsToDump, seenObjects, work, out,
              promoted, subject, quoted, unquoted>>

vars == <<parseVars, dumpVars>>

\* no dumpMaxi call is under way
DumpIdle ==
  /\ dpc = "idle"
  /\ heap = <<>>
  /\ data = <<>>
  /\ allTypes = <<>>
  /\ collectRefs = TRUE
  /\ recordsToDump = <<>>
  /\ seenObjects = {}
  /\ work = <<>>
  /\ out = <<>>
  /\ promoted = <<>>
  /\ subject = <<>>
  /\ quoted = None
  /\ unquoted = None

NoError == [code |-> "", line |-> 0, filename |-> None, cause |-> FALSE]

\* new MaxiParseResult(): an empty schema at version 1.0.0 in lax mode
EmptySchema ==
  [version |-> TextVersion100, mode |-> "lax", imports |-> <<>>, types |-> <<>>,
   nameIndex |-> {}]

\* a MaxiError leaves parseMaxi: every frame unwinds through the finally of
\* loadExternalSchema, which empties the loading stack
Throw(code, line, filename) ==
  /\ err' = [code |-> code, line |-> line, filename |-> filename, cause |-> FALSE]
  /\ pc' = "failed"
  /\ frames' = <<>>
  /\ loadingStack' = {}

Top == frames[Len(frames)]
TopLine == Trim(Top.lines[Top.i])
AtLine == pc = "schema" /\ frames # <<>> /\ Top.i <= Len(Top.lines)

\* the top frame moves on to line n
Advance(n) == [frames EXCEPT ![Len(frames)].i = n]

\* parseMaxi up to the construction of the two parsers
Start ==
  /\ pc = "start"
  /\ LET sec == splitSections(input) IN
     /\ schema' = [EmptySchema EXCEPT !.mode = IF options.mode = "" THEN "lax" ELSE options.mode]
     /\ scan' = [text |-> sec.recordsSection, i |-> 1, line |-> 1]
     /\ IF Trim(sec.schemaSection) = <<>>
        THEN frames' = <<>> /\ pc' = "records" /\ awaiting' = TRUE
        ELSE /\ frames' = <<[lines |-> SplitLines(sec.schemaSection), i |-> 1,
                            filename |-> options.filename]>>
             /\ pc' = "schema"
             /\ awaiting' = FALSE
  /\ UNCHANGED dumpVars
  /\ UNCHANGED <<input, options, files, loadingStack, records, warnings, err,
                 declared, scanned, round, first, events, pair>>

\* SchemaParser.parse on an empty line, a comment, or a line that
\* parseTypeDefinition declines (its null result)
SkipLine ==
  /\ AtLine
  /\ IF TopLine = <<>> THEN TRUE
     ELSE IF TopLine[1] = "#" THEN TRUE
     ELSE TopLine[1] # "@" /\ ~parseTypeDefinition(schema.types, Top.lines, Top.i).taken
  /\ frames' = Advance(Top.i + 1)
  /\ awaiting' = FALSE
  /\ UNCHANGED dumpVars
  /\ UNCHANGED <<input, options, files, pc, loadingStack, schema, records, warnings,
                 err, scan, declared, scanned, round, first, events, pair>>

\* parseDirective for every directive but @schema
Directive ==
  /\ AtLine
  /\ TopLine # <<>> /\ TopLine[1] = "@"
  /\ LET m == matchDirective(TopLine) IN
     /\ ~(m.ok /\ m.name = TextSchema)
     /\ IF ~m.ok THEN
          Throw("E005", Top.i, Top.filename) /\ UNCHANGED <<schema, warnings>>
        ELSE IF m.name = TextVersion THEN
          IF ~IsSemver(m.value) THEN
            Throw("E005", Top.i, Top.filename) /\ UNCHANGED <<schema, warnings>>
          ELSE IF m.value # TextVersion100 THEN
            Throw("E001", Top.i, Top.filename) /\ UNCHANGED <<schema, warnings>>
          ELSE /\ schema' = [schema EXCEPT !.version = m.value]
               /\ frames' = Advance(Top.i + 1)
               /\ UNCHANGED <<pc, err, loadingStack, warnings>>
        ELSE IF m.name = TextMode THEN
          IF m.value \notin {TextStrict, TextLax} THEN
            Throw("E005", Top.i, Top.filename) /\ UNCHANGED <<schema, warnings>>
          ELSE /\ schema' = [schema EXCEPT !.mode = IF m.value = TextStrict THEN "strict"
                                                     ELSE "lax"]
               /\ frames' = Advance(Top.i + 1)
               /\ UNCHANGED <<pc, err, loadingStack, warnings>>
        ELSE /\ warnings' = Append(warnings, [code |-> "E004", line |-> Top.i])
             /\ frames' = Advance(Top.i + 1)
             /\ UNCHANGED <<pc, err, loadingStack, schema>>
  /\ awaiting' = TRUE
  /\ UNCHANGED dumpVars
  /\ UNCHANGED <<input, options, files, records, scan, declared, scanned, round, first,
                 events, pair>>


\* options.loadSchema(path): [ok, text]; a path the loader does not know throws
LoaderAnswer(path) ==
  IF path \in DOMAIN files THEN files[path] ELSE [ok |-> FALSE, text |-> <<>>]

DirectiveEvent(path, loading) == [kind |-> "schema", path |-> path, loading |-> loading]
LoadEvent(path) == [kind |-> "load", path |-> path]

\* loadExternalSchema up to the nested parse() call; a nested parser whose
\* text is blank returns at once, and the finally of loadExternalSchema takes
\* the path off the loading stack again
\* loadExternalSchema that passes over the directive when there is no loader
loadExternalSchema_SilentWithoutLoader(path, answer) ==
  IF ~options.hasLoader THEN
    /\ frames' = Advance(Top.i + 1)
    /\ events' = Append(events, DirectiveEvent(path, FALSE))
    /\ UNCHANGED <<pc, err, loadingStack>>
  ELSE
    /\ events' = events \o <<DirectiveEvent(path, FALSE), LoadEvent(path)>>
    /\ IF ~answer.ok THEN
         /\ err' = [code |-> "E020", line |-> Top.i, filename |-> Top.filename, cause |-> TRUE]
         /\ pc' = "failed" /\ frames' = <<>> /\ loadingStack' = {}
       ELSE IF Trim(answer.text) = <<>> THEN
         /\ frames' = Advance(Top.i + 1) /\ UNCHANGED <<pc, err, loadingStack>>
       ELSE
         /\ frames' = Append(Advance(Top.i + 1), [lines |-> SplitLines(answer.text), i |-> 1, filename |-> Some(path)])
         /\ loadingStack' = loadingStack \union {path}
         /\ UNCHANGED <<pc, err>>

loadExternalSchema(path, answer) ==
  IF ~options.hasLoader THEN
    /\ Throw("E020", Top.i, Top.filename)
    /\ events' = Append(events, DirectiveEvent(path, FALSE))
  ELSE
    /\ events' = events \o <<DirectiveEvent(path, FALSE), LoadEvent(path)>>
    /\ IF ~answer.ok THEN
         /\ err' = [code |-> "E020", line |-> Top.i, filename |-> Top.filename,
                    cause |-> TRUE]
         /\ pc' = "failed"
         /\ frames' = <<>>
         /\ loadingStack' = {}
       ELSE IF Trim(answer.text) = <<>> THEN
         /\ frames' = Advance(Top.i + 1)
         /\ UNCHANGED <<pc, err, loadingStack>>
       ELSE
         /\ frames' = Append(Advance(Top.i + 1),
                             [lines |-> SplitLines(answer.text), i |-> 1,
                              filename |-> Some(path)])
         /\ loadingStack' = loadingStack \union {path}
         /\ UNCHANGED <<pc, err>>

\* parseSchemaDirective that leaves the import list alone
parseSchemaDirective_NoAppend(path) ==
  IF path \in loadingStack THEN
    /\ frames' = Advance(Top.i + 1)
    /\ events' = Append(events, DirectiveEvent(path, TRUE))
    /\ UNCHANGED <<pc, err, loadingStack, schema>>
  ELSE
    /\ schema' = schema
    /\ loadExternalSchema(path, LoaderAnswer(path))

\* parseSchemaDirective without the look at the loading stack
parseSchemaDirective_NoCycleCheck(path) ==
  /\ schema' = [schema EXCEPT !.imports = Append(@, path)]
  /\ loadExternalSchema(path, LoaderAnswer(path))

\* parseSchemaDirective: a path that is being loaded is skipped, any other is
\* pushed onto the import list and loaded
parseSchemaDirective(path) ==
  IF path \in loadingStack THEN
    /\ frames' = Advance(Top.i + 1)
    /\ events' = Append(events, DirectiveEvent(path, TRUE))
    /\ UNCHANGED <<pc, err, loadingStack, schema>>
  ELSE
    /\ schema' = [schema EXCEPT !.imports = Append(@, path)]
    /\ loadExternalSchema(path, LoaderAnswer(path))

\* parseDirective on a @schema directive
Import ==
  /\ AtLine
  /\ TopLine # <<>> /\ TopLine[1] = "@"
  /\ matchDirective(TopLine).ok
  /\ matchDirective(TopLine).name = TextSchema
  /\ parseSchemaDirective(matchDirective(TopLine).value)
  /\ awaiting' = TRUE
  /\ UNCHANGED dumpVars
  /\ UNCHANGED <<input, options, files, records, warnings, scan, declared, scanned,
                 round, first, pair>>

TypeDefinitionStep(r) ==
  IF r.err # "" THEN
    /\ Throw(r.err, IF r.noLine THEN 0 ELSE r.line, IF r.noLine THEN None ELSE Top.filename)
    /\ UNCHANGED <<schema, declared>>
  ELSE
    /\ schema' = [schema EXCEPT !.types = r.types]
    /\ declared' = Append(declared, r.types[Len(r.types)])
    /\ frames' = Advance(r.next)
    /\ UNCHANGED <<pc, err, loadingStack>>

\* parseTypeDefinition on a line it takes, through parseCompleteTypeDefinition
TypeDefinition ==
  /\ AtLine
  /\ TopLine # <<>>
  /\ TopLine[1] \notin {"#", "@"}
  /\ parseTypeDefinition(schema.types, Top.lines, Top.i).taken
  /\ TypeDefinitionStep(parseTypeDefinition(schema.types, Top.lines, Top.i))
  /\ awaiting' = FALSE
  /\ UNCHANGED dumpVars
  /\ UNCHANGED <<input, options, files, records, warnings, scan, scanned, round, first,
                 events, pair>>

\* the end of parse() under a loadExternalSchema without its finally
EndOfSchemaStep_KeepsPath(r) ==
  IF r.err # "" THEN
    /\ Throw(r.err, 0, None)
    /\ schema' = [schema EXCEPT !.types = r.types]
  ELSE
    /\ schema' = [schema EXCEPT !.types = r.types, !.nameIndex = buildNameIndex(r.types)]
    /\ frames' = SubSeq(frames, 1, Len(frames) - 1)
    /\ loadingStack' = loadingStack
    /\ pc' = IF Len(frames) > 1 THEN "schema" ELSE "records"
    /\ err' = err

EndOfSchemaStep(r) ==
  IF r.err # "" THEN
    /\ Throw(r.err, 0, None)
    /\ schema' = [schema EXCEPT !.types = r.types]
  ELSE
    /\ schema' = [schema EXCEPT !.types = r.types, !.nameIndex = buildNameIndex(r.types)]
    /\ frames' = SubSeq(frames, 1, Len(frames) - 1)
    /\ loadingStack' = IF Len(frames) > 1 THEN loadingStack \ {Top.filename.v}
                       ELSE loadingStack
    /\ pc' = IF Len(frames) > 1 THEN "schema" ELSE "records"
    /\ err' = err

\* the end of SchemaParser.parse: resolveInheritance, buildNameIndex, and the
\* return into loadExternalSchema (whose finally removes the path) or parseMaxi
EndOfSchema ==
  /\ pc = "schema"
  /\ frames # <<>>
  /\ Top.i > Len(Top.lines)
  /\ EndOfSchemaStep(resolveInheritance(schema.types))
  /\ awaiting' = TRUE
  /\ UNCHANGED dumpVars
  /\ UNCHANGED <<input, options, files, records, warnings, scan, declared, scanned,
                 round, first, events, pair>>

\* what the scanner of RecordParser.parse finds next
NextRecord == scanRecord(scan.text, scan.i, scan.line)

RecordStep(sc, r) ==
  IF r.err # "" THEN
    /\ Throw(r.err, sc.recordLine, options.filename)
    /\ scanned' = Append(scanned, [alias |-> sc.alias, valuesStr |-> sc.valuesStr])
    /\ UNCHANGED <<records, warnings, scan>>
  ELSE
    /\ records' = Append(records, [alias |-> sc.alias, values |-> r.values,
                                   lineNumber |-> sc.recordLine])
    /\ warnings' = warnings \o [k \in 1..Len(r.warns) |->
                                  [code |-> r.warns[k], line |-> sc.recordLine]]
    /\ scanned' = Append(scanned, [alias |-> sc.alias, valuesStr |-> sc.valuesStr])
    /\ scan' = [scan EXCEPT !.i = sc.next, !.line = sc.line]
    /\ UNCHANGED <<pc, err, frames, loadingStack>>

ScannedStep(sc) ==
  /\ sc.kind # "end"
  /\ IF sc.kind = "unclosed" THEN
       /\ Throw("E005", sc.recordLine, options.filename)
       /\ UNCHANGED <<records, warnings, scan, scanned>>
     ELSE RecordStep(sc, parseSingleRecord(schema.types, schema.mode, sc.alias, sc.valuesStr))

\* one turn of the outer loop of RecordParser.parse that reaches a record:
\* the scan of its body, parseSingleRecord, and the push onto result.records
ParseRecord ==
  /\ pc = "records"
  /\ Trim(scan.text) # <<>>
  /\ ScannedStep(NextRecord)
  /\ awaiting' = FALSE
  /\ UNCHANGED dumpVars
  /\ UNCHANGED <<input, options, files, schema, declared, round, first, events, pair>>

\* the records phase ends: no records section, a blank one, or no record left;
\* parseMaxi returns the result
FinishRecords ==
  /\ pc = "records"
  /\ IF Trim(scan.text) = <<>> THEN TRUE ELSE NextRecord.kind = "end"
  /\ pc' = "done"
  /\ awaiting' = TRUE
  /\ UNCHANGED dumpVars
  /\ UNCHANGED <<input, options, files, frames, loadingStack, schema, records,
                 warnings, err, scan, declared, scanned, round, first, events, pair>>

\* parseMaxi(dumpMaxi(r), options) on the result r of the first parse
RoundTrip ==
  /\ pc = "done" /\ round = 1
  /\ input' = dumpMaxiFromParseResult(schema, records)
  /\ first' = records
  /\ round' = 2
  /\ pc' = "start"
  /\ schema' = EmptySchema
  /\ records' = <<>>
  /\ warnings' = <<>>
  /\ declared' = <<>>
  /\ scanned' = <<>>
  /\ scan' = [text |-> <<>>, i |-> 1, line |-> 1]
  /\ events' = <<>>
  /\ awaiting' = FALSE
  /\ UNCHANGED dumpVars
  /\ UNCHANGED <<options, files, frames, loadingStack, err, pair>>

Next ==
  \/ Start
  \/ SkipLine
  \/ Directive
  \/ Import
  \/ TypeDefinition
  \/ EndOfSchema
  \/ ParseRecord
  \/ FinishRecords
  \/ RoundTrip

\* a parseMaxi call that runs alone
NoPair == [phase |-> "single"]

\* the state before parseMaxi runs on one of the given calls
InitWith(calls) ==
  /\ \E c \in calls :
       /\ input = c.input
       /\ options = c.options
       /\ files = c.files
  /\ pc = "start"
  /\ frames = <<>>
  /\ loadingStack = {}
  /\ schema = EmptySchema
  /\ records = <<>>
  /\ warnings = <<>>
  /\ err = NoError
  /\ scan = [text |-> <<>>, i |-> 1, line |-> 1]
  /\ declared = <<>>
  /\ scanned = <<>>
  /\ round = 1
  /\ first = <<>>
  /\ events = <<>>
  /\ awaiting = FALSE
  /\ pair = NoPair
  /\ DumpIdle


\* --------------------------------------------------------------- inputs

PathX == <<"x">>
PathY == <<"y">>

\* A(a)
LineA == <<"A", "(", "a", ")">>
\* B<A>(b)
LineBofA == <<"B", "<", "A", ">", "(", "b", ")">>
\* A<B>(a)
LineAofB == <<"A", "<", "B", ">", "(", "a", ")">>
\* C<A,B>(b:int|c)
LineCofAB == <<"C", "<", "A", ",", "B", ">", "(", "b", ":", "i", "n", "t", "|", "c", ")">>
\* @schema:x
LineImportX == <<"@", "s", "c", "h", "e", "m", "a", ":", "x">>
\* # types
LineComment == <<"#", " ", "t", "y", "p", "e", "s">>

\* B<A>(b)
FileBofA == <<"B", "<", "A", ">", "(", "b", ")">>
\* A(a|k=1)
FileA == <<"A", "(", "a", "|", "k", "=", "1", ")">>
\* A<B>(a)
FileAofB == <<"A", "<", "B", ">", "(", "a", ")">>
\* @schema:y\nP(p)
FileImportsY == <<"@", "s", "c", "h", "e", "m", "a", ":", "y", LF, "P", "(", "p", ")">>
\* @schema:x\nQ<P>(q)
FileY == <<"@", "s", "c", "h", "e", "m", "a", ":", "x", LF, "Q", "<", "P", ">", "(", "q", ")">>

MaxSchemaLines == 3

SchemaLinePool == {LineA, LineBofA, LineAofB, LineCofAB, LineImportX, LineComment}

\* the schema texts of up to MaxSchemaLines different lines of the pool
SchemaTexts ==
  {Join(ls, <<LF>>) :
     ls \in UNION {{q \in [1..k -> SchemaLinePool] :
                      \A i, j \in 1..k : i # j => q[i] # q[j]} : k \in 1..MaxSchemaLines}}

Loaded(text) == [ok |-> TRUE, text |-> text]
LoaderThrows == [ok |-> FALSE, text |-> <<>>]

\* the loaders: what each answers for the paths x and y
LoaderPool ==
  {[p \in {PathX, PathY} |-> IF p = PathX THEN fx ELSE Loaded(FileY)] :
     fx \in {Loaded(FileBofA), Loaded(FileA), Loaded(FileAofB), Loaded(FileImportsY)}}

Call(text, mode, filename, hasLoader, loader) ==
  [input |-> text,
   options |-> [mode |-> mode, filename |-> filename, hasLoader |-> hasLoader],
   files |-> loader]

\* U:User(id:int|name|email)\n###\nU(1|Julie|julie@maxi.org)
TextExample ==
  <<"U", ":", "U", "s", "e", "r", "(", "i", "d", ":", "i", "n", "t", "|", "n", "a", "m", "e", "|", "e", "m", "a", "i", "l", ")", LF, "#", "#", "#", LF, "U", "(", "1", "|", "J", "u", "l", "i", "e", "|", "j", "u", "l", "i", "e", "@", "m", "a", "x", "i", ".", "o", "r", "g", ")">>

\* @version:1.0.0\n@mode:strict\n@custom:1\n\nP(id:int|name)\nQ(name:str|age)\nC<P,Q>(age:int|z|name=x)\n###\nC(1|n|2|3)
TextMerge ==
  <<"@", "v", "e", "r", "s", "i", "o", "n", ":", "1", ".", "0", ".", "0", LF, "@", "m", "o", "d", "e", ":", "s", "t", "r", "i", "c", "t", LF, "@", "c", "u", "s", "t", "o", "m", ":", "1", LF, LF, "P", "(", "i", "d", ":", "i", "n", "t", "|", "n", "a", "m", "e", ")", LF, "Q", "(", "n", "a", "m", "e", ":", "s", "t", "r", "|", "a", "g", "e", ")", LF, "C", "<", "P", ",", "Q", ">", "(", "a", "g", "e", ":", "i", "n", "t", "|", "z", "|", "n", "a", "m", "e", "=", "x", ")", LF, "#", "#", "#", LF, "C", "(", "1", "|", "n", "|", "2", "|", "3", ")">>

\* A<B>(a)\nB<C>(b)\nC<A>(c)
TextCycle3 ==
  <<"A", "<", "B", ">", "(", "a", ")", LF, "B", "<", "C", ">", "(", "b", ")", LF, "C", "<", "A", ">", "(", "c", ")">>

\* D<D>(d)
TextSelf ==
  <<"D", "<", "D", ">", "(", "d", ")">>

\* U:User(\n  id:int|\n  name\n)\n###\nU(1|x)
TextMultiline ==
  <<"U", ":", "U", "s", "e", "r", "(", LF, " ", " ", "i", "d", ":", "i", "n", "t", "|", LF, " ", " ", "n", "a", "m", "e", LF, ")", LF, "#", "#", "#", LF, "U", "(", "1", "|", "x", ")">>

\* A(a|a:int|b)\nB<A>(b:int|b:str|a)
TextOwnTwice ==
  <<"A", "(", "a", "|", "a", ":", "i", "n", "t", "|", "b", ")", LF, "B", "<", "A", ">", "(", "b", ":", "i", "n", "t", "|", "b", ":", "s", "t", "r", "|", "a", ")">>

\* A(a)\nB<Z>(b)
TextNoParent ==
  <<"A", "(", "a", ")", LF, "B", "<", "Z", ">", "(", "b", ")">>

\* @schema:x\nA(a)
TextImportOnly ==
  <<"@", "s", "c", "h", "e", "m", "a", ":", "x", LF, "A", "(", "a", ")">>

FileName == <<"m">>

LoaderXThrows == [p \in {PathX, PathY} |-> IF p = PathX THEN LoaderThrows ELSE Loaded(FileY)]
LoaderXGood == [p \in {PathX, PathY} |-> IF p = PathX THEN Loaded(FileBofA) ELSE Loaded(FileY)]

\* @schema:x\nQ(q)
FileYPlain == <<"@", "s", "c", "h", "e", "m", "a", ":", "x", LF, "Q", "(", "q", ")">>
\* @schema:x\nP(p)
FileSelfImport == <<"@", "s", "c", "h", "e", "m", "a", ":", "x", LF, "P", "(", "p", ")">>

\* x and y import each other; x imports itself
LoaderCycle == [p \in {PathX, PathY} |-> IF p = PathX THEN Loaded(FileImportsY) ELSE Loaded(FileYPlain)]
LoaderSelf == [p \in {PathX, PathY} |-> IF p = PathX THEN Loaded(FileSelfImport) ELSE Loaded(FileYPlain)]

\* T:Thing(n:int(>=1)=5|m:int=5(<=9))
TextBothOrders == <<"T", ":", "T", "h", "i", "n", "g", "(", "n", ":", "i", "n", "t", "(", ">", "=", "1", ")", "=", "5", "|", "m", ":", "i", "n", "t", "=", "5", "(", "<", "=", "9", ")", ")">>

\* @schema:x\n@schema:x
TextImportTwice == <<"@", "s", "c", "h", "e", "m", "a", ":", "x", LF, "@", "s", "c", "h", "e", "m", "a", ":", "x">>
\* @schema:y\n@schema:x
TextDiamond == <<"@", "s", "c", "h", "e", "m", "a", ":", "y", LF, "@", "s", "c", "h", "e", "m", "a", ":", "x">>

\* x defines a type; x holds a comment only; y imports x, which defines a type
LoaderXTyped == [p \in {PathX, PathY} |-> IF p = PathX THEN Loaded(FileA) ELSE Loaded(FileY)]
LoaderXComment == [p \in {PathX, PathY} |-> IF p = PathX THEN Loaded(LineComment) ELSE Loaded(FileY)]
LoaderDiamond == [p \in {PathX, PathY} |-> IF p = PathX THEN Loaded(FileA) ELSE Loaded(FileYPlain)]

\* single calls: directives, a merge with conflicts, cycles, a definition over
\* several lines, a field with constraints and default in both orders, a
\* missing loader, a loader that throws, imports that form cycles
ExtraCalls ==
  {Call(t, m, None, TRUE, LoaderXGood) :
     t \in {TextExample, TextMerge, TextCycle3, TextSelf, TextMultiline, TextOwnTwice,
            TextNoParent, TextBothOrders},
     m \in {"", "strict"}}
  \union {Call(TextImportOnly, "", Some(FileName), FALSE, LoaderXGood),
          Call(TextImportOnly, "", Some(FileName), TRUE, LoaderXThrows),
          Call(TextImportOnly, "", None, TRUE, LoaderCycle),
          Call(TextImportOnly, "", None, TRUE, LoaderSelf),
          Call(TextImportTwice, "", None, TRUE, LoaderXTyped),
          Call(TextImportTwice, "", None, TRUE, LoaderXComment),
          Call(TextDiamond, "", None, TRUE, LoaderDiamond)}

SchemaCalls == {Call(t, "", None, TRUE, l) : t \in SchemaTexts, l \in LoaderPool}

Init == InitWith(SchemaCalls \union ExtraCalls)

Spec == Init /\ [][Next]_vars

\* both parses of a call have come to an end; no step is possible then
Ended == pc = "failed" \/ (pc = "done" /\ round = 2)

\* every step of a call is taken in the end: the event loop runs each
\* continuation and the loader answers. This is weak fairness of Next, with
\* "Next is not enabled" written as Ended.
SpecLive == Init /\ [][Next]_vars /\ ([]<><<Next>>_vars \/ []<>Ended)

\* --------------------------------------------------- two calls at once

\* what one parseMaxi call owns: its arguments, its place in the code, its
\* parsers and its result
Running ==
  [input |-> input, options |-> options, files |-> files, pc |-> pc,
   frames |-> frames, loadingStack |-> loadingStack, schema |-> schema,
   records |-> records, warnings |-> warnings, err |-> err, scan |-> scan,
   declared |-> declared, scanned |-> scanned, events |-> events,
   awaiting |-> awaiting]

\* a call that has not run yet
Fresh(c) ==
  [input |-> c.input, options |-> c.options, files |-> c.files, pc |-> "start",
   frames |-> <<>>, loadingStack |-> {}, schema |-> EmptySchema,
   records |-> <<>>, warnings |-> <<>>, err |-> NoError,
   scan |-> [text |-> <<>>, i |-> 1, line |-> 1],
   declared |-> <<>>, scanned |-> <<>>, events |-> <<>>, awaiting |-> FALSE]

\* one set of loading paths for all calls
OwnLoadingStack_Global(call) == loadingStack

\* the loading paths a call's SchemaParser sees are those of its own instance
OwnLoadingStack(call) == call.loadingStack

\* the event loop goes on with the given call
Resume(call) ==
  /\ input' = call.input
  /\ options' = call.options
  /\ files' = call.files
  /\ pc' = call.pc
  /\ frames' = call.frames
  /\ loadingStack' = OwnLoadingStack(call)
  /\ schema' = call.schema
  /\ records' = call.records
  /\ warnings' = call.warnings
  /\ err' = call.err
  /\ scan' = call.scan
  /\ declared' = call.declared
  /\ scanned' = call.scanned
  /\ events' = call.events
  /\ awaiting' = call.awaiting

\* what the caller of parseMaxi gets: the result, or the error thrown
Outcome ==
  IF pc = "failed" THEN [ok |-> FALSE, err |-> err]
  ELSE [ok |-> TRUE, schema |-> schema, records |-> records, warnings |-> warnings]

\* call A has run alone; now A and B are both called
BeginPair ==
  /\ pair.phase = "solo"
  /\ pc \in {"done", "failed"}
  /\ Resume(Fresh(pair.callA))
  /\ pair' = [phase |-> "pair", callA |-> pair.callA, callB |-> pair.callB,
              active |-> "A", other |-> Fresh(pair.callB), solo |-> Outcome,
              overlapped |-> FALSE]
  /\ UNCHANGED dumpVars
  /\ UNCHANGED <<round, first>>

\* the running call is suspended at an await (or has not begun, or has ended)
\* and the event loop goes on with the other call
Switch ==
  /\ pair.phase = "pair"
  /\ IF awaiting THEN TRUE ELSE pc \in {"start", "done", "failed"}
  /\ Resume(pair.other)
  /\ pair' = [pair EXCEPT !.active = IF @ = "A" THEN "B" ELSE "A",
                          !.other = Running,
                          !.overlapped = IF @ THEN TRUE
                                         ELSE loadingStack \cap pair.other.loadingStack # {}]
  /\ UNCHANGED dumpVars
  /\ UNCHANGED <<round, first>>

NextPair ==
  \/ Start
  \/ SkipLine
  \/ Directive
  \/ Import
  \/ TypeDefinition
  \/ EndOfSchema
  \/ ParseRecord
  \/ FinishRecords
  \/ BeginPair
  \/ Switch

\* @schema:x\nA(a)\n###\nP(1)\nA(2)
TextImportRecords == <<"@", "s", "c", "h", "e", "m", "a", ":", "x", LF, "A", "(", "a", ")", LF, "#", "#", "#", LF, "P", "(", "1", ")", LF, "A", "(", "2", ")">>

\* calls that import the same paths, with and without success, and one that
\* imports nothing
PairCalls ==
  {Call(TextImportRecords, "", None, TRUE, LoaderCycle),
   Call(TextImportOnly, "", None, TRUE, LoaderSelf),
   Call(TextImportOnly, "", Some(FileName), TRUE, LoaderXThrows),
   Call(TextImportOnly, "", Some(FileName), FALSE, LoaderXGood),
   Call(TextMerge, "strict", None, TRUE, LoaderXGood)}

InitPair ==
  /\ \E a, b \in PairCalls :
       /\ input = a.input
       /\ options = a.options
       /\ files = a.files
       /\ pair = [phase |-> "solo", callA |-> a, callB |-> b]
  /\ pc = "start"
  /\ frames = <<>>
  /\ loadingStack = {}
  /\ schema = EmptySchema
  /\ records = <<>>
  /\ warnings = <<>>
  /\ err = NoError
  /\ scan = [text |-> <<>>, i |-> 1, line |-> 1]
  /\ declared = <<>>
  /\ scanned = <<>>
  /\ round = 1
  /\ first = <<>>
  /\ events = <<>>
  /\ awaiting = FALSE
  /\ DumpIdle

SpecPair == InitPair /\ [][NextPair]_vars


\* ------------------------------------------------------- record inputs

\* U:User(id:int(!)|name=x(!)|n:int=5)
RecSchemaReq == <<"U", ":", "U", "s", "e", "r", "(", "i", "d", ":", "i", "n", "t", "(", "!", ")", "|", "n", "a", "m", "e", "=", "x", "(", "!", ")", "|", "n", ":", "i", "n", "t", "=", "5", ")">>
\* U:User(id:int|type|tag(!))
RecSchemaType == <<"U", ":", "U", "s", "e", "r", "(", "i", "d", ":", "i", "n", "t", "|", "t", "y", "p", "e", "|", "t", "a", "g", "(", "!", ")", ")">>
\* U(id:int(!)|name)
RecSchemaPair == <<"U", "(", "i", "d", ":", "i", "n", "t", "(", "!", ")", "|", "n", "a", "m", "e", ")">>
\* U(a)
RecSchemaOne == <<"U", "(", "a", ")">>
\* U(flag:bool|d:decimal|s:str=7)
RecSchemaTyped == <<"U", "(", "f", "l", "a", "g", ":", "b", "o", "o", "l", "|", "d", ":", "d", "e", "c", "i", "m", "a", "l", "|", "s", ":", "s", "t", "r", "=", "7", ")">>

\* U:User(id|type=t)
RecSchemaTypeDefault == <<"U", ":", "U", "s", "e", "r", "(", "i", "d", "|", "t", "y", "p", "e", "=", "t", ")">>
\* U(type|id)
RecSchemaTypeAlias == <<"U", "(", "t", "y", "p", "e", "|", "i", "d", ")">>

\* U(type|flag:bool)
RecSchemaTypeBool == <<"U", "(", "t", "y", "p", "e", "|", "f", "l", "a", "g", ":", "b", "o", "o", "l", ")">>

RecSchemaPool ==
  {RecSchemaReq, RecSchemaType, RecSchemaPair, RecSchemaOne, RecSchemaTyped,
   RecSchemaTypeDefault, RecSchemaTypeAlias, RecSchemaTypeBool}

\* the empty token
TokEmpty == <<>>
\* ~
TokNull == <<"~">>
\* 1
TokOne == <<"1">>
\* x
TokX == <<"x">>
\* "a\"b"
TokQuoted == <<QUOTE, "a", BSLASH, QUOTE, "b", QUOTE>>

\* ""
TokEmptyQuoted == <<QUOTE, QUOTE>>

TokenPool == {TokEmpty, TokNull, TokOne, TokX, TokQuoted, TokEmptyQuoted}

MaxTokens == 3

\* the record bodies of one to MaxTokens tokens of the pool
RecordBodies == {Join(q, <<"|">>) : q \in UNION {[1..k -> TokenPool] : k \in 1..MaxTokens}}

RecordOf(alias, body) == alias \o <<"(">> \o body \o <<")">>

\* a schema line, the separator, one record of the type U
RecordTexts ==
  {sch \o <<LF>> \o Separator \o <<LF>> \o RecordOf(<<"U">>, b) :
     sch \in RecSchemaPool, b \in RecordBodies}

\* the same with a record of the undefined alias X before a record of U
UnknownAliasTexts ==
  {RecSchemaOne \o <<LF>> \o Separator \o <<LF>> \o RecordOf(<<"X">>, b)
     \o <<LF>> \o RecordOf(<<"U">>, TokOne) :
     b \in RecordBodies}

\* tokens with blanks around them: " 1 ", "x " and " "
TokSpacedOne == <<SP, "1", SP>>
TokSpacedX == <<"x", SP>>
TokBlank == <<SP>>

SpacedTokenPool == {TokOne, TokSpacedOne, TokSpacedX, TokBlank}

\* U(n:int|s=7)
RecSchemaSpaced == <<"U", "(", "n", ":", "i", "n", "t", "|", "s", "=", "7", ")">>

\* records of one or two tokens, some with blanks around them
SpacedTexts ==
  {RecSchemaSpaced \o <<LF>> \o Separator \o <<LF>> \o RecordOf(<<"U">>, Join(q, <<"|">>)) :
     q \in UNION {[1..k -> SpacedTokenPool] : k \in 1..2}}

RecordCalls ==
  {Call(t, m, None, TRUE, LoaderXGood) :
     t \in RecordTexts \union UnknownAliasTexts \union SpacedTexts, m \in {"", "strict"}}

InitRec == InitWith(RecordCalls \union ExtraCalls)

SpecRec == InitRec /\ [][Next]_vars

\* ------------------------------------------------------ inline objects

\* the steps of one parseMaxi call
NextParse ==
  \/ Start
  \/ SkipLine
  \/ Directive
  \/ Import
  \/ TypeDefinition
  \/ EndOfSchema
  \/ ParseRecord
  \/ FinishRecords

\* U(a(!)|b=7)\nW(u:U)
InlineSchemaReq == <<"U", "(", "a", "(", "!", ")", "|", "b", "=", "7", ")", LF, "W", "(", "u", ":", "U", ")">>
\* U:User(id:int|type)\nW(u:User)
InlineSchemaType == <<"U", ":", "U", "s", "e", "r", "(", "i", "d", ":", "i", "n", "t", "|", "t", "y", "p", "e", ")", LF, "W", "(", "u", ":", "U", "s", "e", "r", ")">>

InlineTokenPool == {TokEmpty, TokNull, TokOne, TokX}

\* the contents of one to MaxTokens tokens
InlineContents ==
  {Join(q, <<"|">>) : q \in UNION {[1..k -> InlineTokenPool] : k \in 1..MaxTokens}}

\* a schema with a type W whose one field is of the type U, and the record W((c))
InlineTexts ==
  {sch \o <<LF>> \o Separator \o <<LF>> \o RecordOf(<<"W">>, <<"(">> \o c \o <<")">>) :
     sch \in {InlineSchemaReq, InlineSchemaType}, c \in InlineContents}

InlineCalls == {Call(t, m, None, TRUE, LoaderXGood) : t \in InlineTexts, m \in {"", "strict"}}

InitInline == InitWith(InlineCalls \union ExtraCalls)

SpecInline == InitInline /\ [][NextParse]_vars


\* ------------------------------------------------------------ the dumper

\* no parseMaxi call is under way
ParseIdle ==
  /\ input = <<>>
  /\ options = [mode |-> "", filename |-> None, hasLoader |-> FALSE]
  /\ files = <<>>
  /\ pc = "idle"
  /\ frames = <<>>
  /\ loadingStack = {}
  /\ schema = EmptySchema
  /\ records = <<>>
  /\ warnings = <<>>
  /\ err = NoError
  /\ scan = [text |-> <<>>, i |-> 1, line |-> 1]
  /\ declared = <<>>
  /\ scanned = <<>>
  /\ round = 1
  /\ first = <<>>
  /\ events = <<>>
  /\ awaiting = FALSE
  /\ pair = NoPair

\* ---- dumpMaxi on objects

\* A JavaScript value in the heap: the parsed values above, undefined, a
\* reference to an object, or an array of values.
UndefV == [k |-> "undef", n |-> 0, e |-> 0, s |-> <<>>]
RefV(o) == [k |-> "ref", n |-> o, e |-> 0, s |-> <<>>]
ArrV(items) == [k |-> "arr", n |-> 0, e |-> 0, s |-> <<>>, items |-> items]

\* An object: its own keys in insertion order and their values.
Obj(keys, vals) == [keys |-> keys, vals |-> vals]

KeyIdx(obj, name) ==
  IF \E i \in 1..Len(obj.keys) : obj.keys[i] = name
  THEN CHOOSE i \in 1..Len(obj.keys) : obj.keys[i] = name
  ELSE 0

\* Object.prototype.hasOwnProperty.call(obj, name)
hasOwn(obj, name) == KeyIdx(obj, name) # 0

\* obj[name]
Prop(obj, name) == IF hasOwn(obj, name) THEN obj.vals[KeyIdx(obj, name)] ELSE UndefV

NameId == <<"i", "d">>

\* typeExpr.replace(/\[\]$/, '')
stripArraySuffix(typeExpr) ==
  IF EndsWith(typeExpr, <<"[", "]">>) THEN Slice(typeExpr, 1, Len(typeExpr) - 2)
  ELSE typeExpr

NoType == [some |-> FALSE, t |-> TypeDef(<<>>, None, <<>>, <<>>)]

\* allTypes.get(alias)
typeOfAlias(ts, alias) ==
  IF hasType(ts, alias) THEN [some |-> TRUE, t |-> getType(ts, alias)] ELSE NoType

\* the type the field's type expression names, an array suffix aside
nestedTypeOf(ts, fieldInfo) ==
  IF fieldInfo.some /\ fieldInfo.f.typeExpr.some
  THEN typeOfAlias(ts, stripArraySuffix(fieldInfo.f.typeExpr.v))
  ELSE NoType

\* nestedType.fields.find(f => f.name === 'id') finds a field
hasIdField(t) == FieldIdx(t.fields, NameId) # 0

\* value[idField.name] !== undefined
hasIdValue(obj) == Prop(obj, NameId) # UndefV

\* the field info dumpValue hands to the elements of an array
elemFieldInfo(fieldInfo) ==
  IF fieldInfo.some /\ fieldInfo.f.typeExpr.some
     /\ EndsWith(TrimEnd(fieldInfo.f.typeExpr.v), <<"[", "]">>)
  THEN SomeField([fieldInfo.f EXCEPT
         !.typeExpr = Some(Slice(TrimEnd(@.v), 1, Len(TrimEnd(@.v)) - 2))])
  ELSE fieldInfo

\* the values of a record without their trailing run of empty texts
RECURSIVE trimTrailingEmpty(_)
trimTrailingEmpty(vals) ==
  IF vals # <<>> /\ vals[Len(vals)] = <<>> THEN trimTrailingEmpty(SubSeq(vals, 1, Len(vals) - 1))
  ELSE vals

\* dumpMapKey
dumpMapKey(key) == quoteIfNeeded(key)

RECURSIVE dumpValueIn(_, _, _, _)
RECURSIVE dumpObjectAsRecord(_, _, _, _, _)

\* vals.filter(v => v !== ''): every empty value dropped, not the trailing ones only
dumpObjectAsRecord_DropEmpty(h, ts, alias, obj, t) ==
  alias \o <<"(">>
  \o Join(SelectSeqNonEmpty(
       IF t.some
       THEN [i \in 1..Len(t.t.fields) |->
               IF ~hasOwn(obj, t.t.fields[i].name) THEN <<>>
               ELSE IF Prop(obj, t.t.fields[i].name).k \in {"null", "undef"} THEN <<"~">>
               ELSE dumpValueIn(h, ts, Prop(obj, t.t.fields[i].name), SomeField(t.t.fields[i]))]
       ELSE [i \in 1..Len(obj.keys) |->
               IF obj.vals[i].k \in {"null", "undef"} THEN <<"~">>
               ELSE dumpValueIn(h, ts, obj.vals[i], NoField)]), <<"|">>)
  \o <<")">>

\* dumpObjectAsRecord, single-line form: with a type one value per field in
\* field order, without one the values in key order
dumpObjectAsRecord(h, ts, alias, obj, t) ==
  alias \o <<"(">>
  \o Join(trimTrailingEmpty(
       IF t.some
       THEN [i \in 1..Len(t.t.fields) |->
               IF ~hasOwn(obj, t.t.fields[i].name) THEN <<>>
               ELSE IF Prop(obj, t.t.fields[i].name).k \in {"null", "undef"} THEN <<"~">>
               ELSE dumpValueIn(h, ts, Prop(obj, t.t.fields[i].name), SomeField(t.t.fields[i]))]
       ELSE [i \in 1..Len(obj.keys) |->
               IF obj.vals[i].k \in {"null", "undef"} THEN <<"~">>
               ELSE dumpValueIn(h, ts, obj.vals[i], NoField)]), <<"|">>)
  \o <<")">>

\* the by-reference test of dumpValue: the field names a type with an `id`
\* field and the object has an id that is not undefined
rendersByReference(ts, obj, fieldInfo) ==
  /\ nestedTypeOf(ts, fieldInfo).some
  /\ hasIdField(nestedTypeOf(ts, fieldInfo).t)
  /\ hasIdValue(obj)

\* dumpValue(value, fieldInfo, allTypes) over the heap h
dumpValueIn(h, ts, value, fieldInfo) ==
  IF value.k = "arr"
  THEN <<"[">>
       \o Join([i \in 1..Len(value.items) |->
                  dumpValueIn(h, ts, value.items[i], elemFieldInfo(fieldInfo))], <<",">>)
       \o <<"]">>
  ELSE IF value.k = "ref"
  THEN (IF rendersByReference(ts, h[value.n], fieldInfo)
        THEN dumpValueIn(h, ts, Prop(h[value.n], NameId), NoField)
        ELSE IF nestedTypeOf(ts, fieldInfo).some
        THEN dumpObjectAsRecord(h, ts, <<>>, h[value.n], nestedTypeOf(ts, fieldInfo))
        ELSE <<"{">>
             \o Join([i \in 1..Len(h[value.n].keys) |->
                        dumpMapKey(h[value.n].keys[i]) \o <<":">>
                        \o dumpValueIn(h, ts, h[value.n].vals[i], NoField)], <<",">>)
             \o <<"}">>)
  ELSE IF value.k = "undef" THEN <<"~">>
  ELSE dumpValue(value)

\* the nested objects dumpValue meets under a value and the form it gives
\* each: "ref" (its id alone), "inline" (a record in parentheses) or "map"
RECURSIVE formsIn(_, _, _, _)
RECURSIVE formsOfRecord(_, _, _, _)

formsOfRecord(h, ts, obj, t) ==
  IF t.some
  THEN UNION {formsIn(h, ts, Prop(obj, t.t.fields[i].name), SomeField(t.t.fields[i])) :
                i \in {j \in 1..Len(t.t.fields) : hasOwn(obj, t.t.fields[j].name)}}
  ELSE UNION {formsIn(h, ts, obj.vals[i], NoField) : i \in 1..Len(obj.keys)}

formsIn(h, ts, value, fieldInfo) ==
  IF value.k = "arr"
  THEN UNION {formsIn(h, ts, value.items[i], elemFieldInfo(fieldInfo)) :
                i \in 1..Len(value.items)}
  ELSE IF value.k = "ref"
  THEN (IF rendersByReference(ts, h[value.n], fieldInfo)
        THEN {[obj |-> value.n, form |-> "ref"]}
        ELSE IF nestedTypeOf(ts, fieldInfo).some
        THEN {[obj |-> value.n, form |-> "inline"]}
             \union formsOfRecord(h, ts, h[value.n], nestedTypeOf(ts, fieldInfo))
        ELSE {[obj |-> value.n, form |-> "map"]}
             \union formsOfRecord(h, ts, h[value.n], NoType))
  ELSE {}

\* dumpTypeInfo, single-line form
dumpTypeInfo(t) == dumpTypeDef(t)

\* Map.get(alias).push(o), after Map.set(alias, []) for a new alias
pushRow(rtd, alias, o) ==
  IF \E i \in 1..Len(rtd) : rtd[i].alias = alias
  THEN [i \in 1..Len(rtd) |->
          IF rtd[i].alias = alias THEN [rtd[i] EXCEPT !.rows = Append(@, o)] ELSE rtd[i]]
  ELSE Append(rtd, [alias |-> alias, rows |-> <<o>>])

\* the references of all rows, bucket after bucket
RECURSIVE rowsOf(_)
rowsOf(rtd) ==
  IF rtd = <<>> THEN <<>>
  ELSE [i \in 1..Len(rtd[1].rows) |-> [alias |-> rtd[1].alias, obj |-> rtd[1].rows[i]]]
       \o rowsOf(Tail(rtd))

\* the seeding loop: every row not yet seen is marked and pushed
RECURSIVE seedWork(_, _)
seedWork(rows, st) ==
  IF rows = <<>> THEN st
  ELSE seedWork(Tail(rows),
         IF rows[1].obj \in st.seenObjects THEN st
         ELSE [st EXCEPT !.seenObjects = @ \union {rows[1].obj},
                         !.work = Append(@, rows[1])])

\* the item loop body without the look at seenObjects
collectItem_NoSeenCheck(h, st, nestedType, item) ==
  IF item.k # "ref" THEN st
  ELSE IF hasIdValue(h[item.n])
  THEN [recordsToDump |-> pushRow(st.recordsToDump, nestedType.alias, item.n),
        seenObjects |-> st.seenObjects \union {item.n},
        work |-> Append(st.work, [alias |-> nestedType.alias, obj |-> item.n]),
        promoted |-> Append(st.promoted, item.n)]
  ELSE st

\* the item loop body: an unseen object with an id that is not undefined is
\* promoted, marked and pushed
collectItem(h, st, nestedType, item) ==
  IF item.k # "ref" THEN st
  ELSE IF item.n \in st.seenObjects THEN st
  ELSE IF hasIdValue(h[item.n])
  THEN [recordsToDump |-> pushRow(st.recordsToDump, nestedType.alias, item.n),
        seenObjects |-> st.seenObjects \union {item.n},
        work |-> Append(st.work, [alias |-> nestedType.alias, obj |-> item.n]),
        promoted |-> Append(st.promoted, item.n)]
  ELSE st

RECURSIVE collectItems(_, _, _, _)
collectItems(h, st, nestedType, items) ==
  IF items = <<>> THEN st
  ELSE collectItems(h, collectItem(h, st, nestedType, items[1]), nestedType, Tail(items))

\* the field loop over one object taken off the worklist
RECURSIVE collectFields(_, _, _, _, _)
collectFields(h, ts, st, obj, fields) ==
  IF fields = <<>> THEN st
  ELSE collectFields(h, ts,
         IF Prop(obj, fields[1].name).k \in {"ref", "arr"}
            /\ nestedTypeOf(ts, SomeField(fields[1])).some
            /\ hasIdField(nestedTypeOf(ts, SomeField(fields[1])).t)
         THEN collectItems(h, st, nestedTypeOf(ts, SomeField(fields[1])).t,
                IF Prop(obj, fields[1].name).k = "arr" THEN Prop(obj, fields[1].name).items
                ELSE <<Prop(obj, fields[1].name)>>)
         ELSE st,
         obj, Tail(fields))

\* the output lines of the records of all buckets
emitRows(h, ts, rows) ==
  [i \in 1..Len(rows) |->
     dumpObjectAsRecord(h, ts, rows[i].alias, h[rows[i].obj], typeOfAlias(ts, rows[i].alias))]

\* the state of the traversal carried through its loops
Traversal == [recordsToDump |-> recordsToDump, seenObjects |-> seenObjects, work |-> work,
              promoted |-> promoted]

SetTraversal(st) ==
  /\ recordsToDump' = st.recordsToDump
  /\ seenObjects' = st.seenObjects
  /\ work' = st.work
  /\ promoted' = st.promoted

\* dumpMaxiFromObjects up to the traversal: the type lines and the separator,
\* the buckets primed with input.data, and with collectReferences the
\* worklist seeded from them
DumpStart ==
  /\ dpc = "start"
  /\ out' = IF allTypes # <<>>
            THEN [i \in 1..Len(allTypes) |-> dumpTypeInfo(allTypes[i])] \o <<Separator>>
            ELSE <<>>
  /\ IF collectRefs
     THEN SetTraversal(seedWork(rowsOf(data),
            [recordsToDump |-> data, seenObjects |-> {}, work |-> <<>>, promoted |-> <<>>]))
     ELSE SetTraversal([recordsToDump |-> data, seenObjects |-> {}, work |-> <<>>,
                        promoted |-> <<>>])
  /\ dpc' = IF collectRefs THEN "collect" ELSE "emit"
  /\ UNCHANGED <<heap, data, allTypes, collectRefs, subject, quoted, unquoted>>
  /\ UNCHANGED parseVars

\* one turn of the while loop of collectReferencedObjectsIterative
Collect ==
  /\ dpc = "collect"
  /\ work # <<>>
  /\ IF hasType(allTypes, work[Len(work)].alias)
     THEN SetTraversal(collectFields(heap, allTypes,
            [Traversal EXCEPT !.work = SubSeq(work, 1, Len(work) - 1)],
            heap[work[Len(work)].obj],
            getType(allTypes, work[Len(work)].alias).fields))
     ELSE SetTraversal([Traversal EXCEPT !.work = SubSeq(work, 1, Len(work) - 1)])
  /\ UNCHANGED <<dpc, heap, data, allTypes, collectRefs, out, subject, quoted, unquoted>>
  /\ UNCHANGED parseVars

\* the worklist is empty: collectReferencedObjectsIterative returns
Collected ==
  /\ dpc = "collect"
  /\ work = <<>>
  /\ dpc' = "emit"
  /\ UNCHANGED <<heap, data, allTypes, collectRefs, recordsToDump, seenObjects, work, out,
                 promoted, subject, quoted, unquoted>>
  /\ UNCHANGED parseVars

\* the final loop of dumpMaxiFromObjects: one line per row of every bucket
EmitRecords ==
  /\ dpc = "emit"
  /\ out' = out \o emitRows(heap, allTypes, rowsOf(recordsToDump))
  /\ dpc' = "done"
  /\ UNCHANGED <<heap, data, allTypes, collectRefs, recordsToDump, seenObjects, work,
                 promoted, subject, quoted, unquoted>>
  /\ UNCHANGED parseVars

NextDump ==
  \/ DumpStart
  \/ Collect
  \/ Collected
  \/ EmitRecords

\* ---- the objects and types handed to dumpMaxi

NameA == <<"a">>
NameB == <<"b">>
NameW == <<"w">>
NameX == <<"x">>
NameTag == <<"t", "a", "g">>
NameName == <<"n", "a", "m", "e">>
NameEmail == <<"e", "m", "a", "i", "l">>

AliasU == <<"U">>
AliasN == <<"N">>
AliasW == <<"W">>
AliasX == <<"X">>

Field(name, typeExpr) == FieldDef(name, typeExpr, None, <<>>, None)

\* U:User(id:int|name|email)
DumpTypeU ==
  TypeDef(AliasU, Some(<<"U", "s", "e", "r">>), <<>>,
          <<Field(NameId, Some(TextInt)), Field(NameName, None), Field(NameEmail, None)>>)

\* N(id|a:N|b:N[]|w:W): a node with an identifier, a child, children and a wrapper
DumpTypeN ==
  TypeDef(AliasN, None, <<>>,
          <<Field(NameId, None), Field(NameA, Some(AliasN)),
            Field(NameB, Some(AliasN \o <<"[", "]">>)), Field(NameW, Some(AliasW))>>)

\* W(x:N|tag): a type without identifier
DumpTypeW ==
  TypeDef(AliasW, None, <<>>, <<Field(NameX, Some(AliasN)), Field(NameTag, None)>>)

\* a choice that leaves the key out of the object, and the choice of the
\* object's own number as id
Absent == [k |-> "absent", n |-> 0, e |-> 0, s |-> <<>>]
OwnId == [k |-> "own", n |-> 0, e |-> 0, s |-> <<>>]

\* an object from the chosen values of its keys
RECURSIVE ObjOf(_, _)
ObjOf(keys, choice) ==
  IF keys = <<>> THEN Obj(<<>>, <<>>)
  ELSE IF choice[1] = Absent THEN ObjOf(Tail(keys), Tail(choice))
  ELSE Obj(<<keys[1]>> \o ObjOf(Tail(keys), Tail(choice)).keys,
           <<choice[1]>> \o ObjOf(Tail(keys), Tail(choice)).vals)

\* the values of a key of a flat object: absent, null, undefined, the empty
\* string, a plain string and a string that needs quotes
FlatValues == {Absent, NullV, UndefV, StrV(<<>>), StrV(<<"x">>), StrV(<<"a", SP, "b">>)}

FlatObjects ==
  {ObjOf(<<NameId, NameName, NameEmail>>, <<i, n, e>>) :
     i \in {Absent, NullV, NumV(1, 0)}, n \in FlatValues, e \in FlatValues}

DumpCall(h, d, ts, collect) == [heap |-> h, data |-> d, types |-> ts, collectRefs |-> collect]

Bucket(alias, rows) == [alias |-> alias, rows |-> rows]

\* one flat object dumped as a record of U
FlatCalls ==
  {DumpCall(<<o>>, <<Bucket(AliasU, <<1>>)>>, <<DumpTypeU>>, c) :
     o \in FlatObjects, c \in BOOLEAN}

MaxObjects == 3

\* a node: without id, with the id null or with its own number as id, and
\* without child or with one of the objects as child
NodeOf(o, id, child) ==
  ObjOf(<<NameId, NameA>>,
        <<IF id = OwnId THEN NumV(o, 0) ELSE id,
          IF child = 0 THEN Absent ELSE RefV(child)>>)

\* following the children of objects without id from cur leads back to start
RECURSIVE ReturnsTo(_, _, _, _)
ReturnsTo(h, start, cur, n) ==
  /\ n > 0
  /\ ~hasIdValue(h[cur])
  /\ Prop(h[cur], NameA).k = "ref"
  /\ \/ Prop(h[cur], NameA).n = start
     \/ ReturnsTo(h, start, Prop(h[cur], NameA).n, n - 1)

\* dumpValue returns on every object of the heap: no object without id
\* contains itself
Renderable(h) == \A o \in 1..Len(h) : ~ReturnsTo(h, o, o, Len(h))

NodeHeaps ==
  {h \in {[o \in 1..MaxObjects |-> NodeOf(o, ids[o], children[o])] :
            ids \in [1..MaxObjects -> {Absent, NullV, OwnId}],
            children \in [1..MaxObjects -> 0..MaxObjects]} :
     Renderable(h)}

\* the first object, or the first two, dumped as records of N
GraphCalls ==
  {DumpCall(h, <<Bucket(AliasN, rows)>>, <<DumpTypeN, DumpTypeW>>, c) :
     h \in NodeHeaps, rows \in {<<1>>, <<1, 2>>}, c \in BOOLEAN}

\* {id: 1, b: [o2, o3, o2]}, {id: 2, a: o1}, {id: 3, a: o2}: an object in an
\* array twice and as a child, in a cycle with the first
HeapArray ==
  <<ObjOf(<<NameId, NameB>>, <<NumV(1, 0), ArrV(<<RefV(2), RefV(3), RefV(2)>>)>>),
    ObjOf(<<NameId, NameA>>, <<NumV(2, 0), RefV(1)>>),
    ObjOf(<<NameId, NameA>>, <<NumV(3, 0), RefV(2)>>)>>

\* {id: 1, w: o2}, {x: o3, tag: 't'}, {id: 3}: an identified object inside an
\* inline object of the type without identifier
HeapWrapped ==
  <<ObjOf(<<NameId, NameW>>, <<NumV(1, 0), RefV(2)>>),
    ObjOf(<<NameX, NameTag>>, <<RefV(3), StrV(<<"t">>)>>),
    ObjOf(<<NameId>>, <<NumV(3, 0)>>)>>

\* {id: 1, b: [o2]}, {a: o3}, {id: 3}: an identified object inside an array
\* element without id
HeapArrayInline ==
  <<ObjOf(<<NameId, NameB>>, <<NumV(1, 0), ArrV(<<RefV(2)>>)>>),
    ObjOf(<<NameA>>, <<RefV(3)>>),
    ObjOf(<<NameId>>, <<NumV(3, 0)>>)>>

\* the same object as a row of N and of W; rows of an alias without a type
CuratedCalls ==
  {DumpCall(h, <<Bucket(AliasN, <<1>>)>>, <<DumpTypeN, DumpTypeW>>, c) :
     h \in {HeapArray, HeapWrapped, HeapArrayInline}, c \in BOOLEAN}
  \union {DumpCall(HeapWrapped, <<Bucket(AliasW, <<2>>), Bucket(AliasN, <<1, 3>>)>>,
                   <<DumpTypeN, DumpTypeW>>, TRUE),
          DumpCall(HeapWrapped, <<Bucket(AliasX, <<3, 1>>)>>, <<DumpTypeN, DumpTypeW>>, TRUE)}

DumpCalls == FlatCalls \union GraphCalls \union CuratedCalls

InitDump ==
  /\ ParseIdle
  /\ dpc = "start"
  /\ \E c \in DumpCalls :
       /\ heap = c.heap
       /\ data = c.data
       /\ allTypes = c.types
       /\ collectRefs = c.collectRefs
  /\ recordsToDump = <<>>
  /\ seenObjects = {}
  /\ work = <<>>
  /\ out = <<>>
  /\ promoted = <<>>
  /\ subject = <<>>
  /\ quoted = None
  /\ unquoted = None

SpecDump == InitDump /\ [][NextDump]_vars

\* dumpMaxi has returned; no step is possible then
Dumped == dpc = "done"

\* dumpMaxi is synchronous: every step of the call is taken in the end. This
\* is weak fairness of NextDump, with "NextDump is not enabled" written as
\* Dumped.
SpecDumpLive == InitDump /\ [][NextDump]_vars /\ ([]<><<NextDump>>_vars \/ []<>Dumped)

\* ---- one string written in quotes and read back

\* dumpValue on a string that needs quoting: '"' + escapeString(value) + '"'
WriteQuoted ==
  /\ dpc = "escape"
  /\ quoted' = Some(<<QUOTE>> \o escapeString(subject) \o <<QUOTE>>)
  /\ dpc' = "escaped"
  /\ UNCHANGED <<heap, data, allTypes, collectRefs, recordsToDump, seenObjects, work, out,
                 promoted, subject, unquoted>>
  /\ UNCHANGED parseVars

\* parseFieldValue on the quoted token: parseQuotedString
ReadQuoted ==
  /\ dpc = "escaped"
  /\ unquoted' = Some(parseQuotedString(quoted.v))
  /\ dpc' = "read"
  /\ UNCHANGED <<heap, data, allTypes, collectRefs, recordsToDump, seenObjects, work, out,
                 promoted, subject, quoted>>
  /\ UNCHANGED parseVars

NextEscape ==
  \/ WriteQuoted
  \/ ReadQuoted

EscapeChars == {BSLASH, QUOTE, LF, CR, TAB, "n", "r", "t"}

MaxStr == 3

\* the strings of up to MaxStr characters over EscapeChars
EscapeStrings == UNION {[1..k -> EscapeChars] : k \in 0..MaxStr}

InitEscape ==
  /\ ParseIdle
  /\ dpc = "escape"
  /\ subject \in EscapeStrings
  /\ heap = <<>>
  /\ data = <<>>
  /\ allTypes = <<>>
  /\ collectRefs = TRUE
  /\ recordsToDump = <<>>
  /\ seenObjects = {}
  /\ work = <<>>
  /\ out = <<>>
  /\ promoted = <<>>
  /\ quoted = None
  /\ unquoted = None

SpecEscape == InitEscape /\ [][NextEscape]_vars


\* ============================================================ properties

\* the subsequence of seq at the indices in idx, in order
RECURSIVE PickFrom(_, _, _)
PickFrom(seq, idx, i) ==
  IF i > Len(seq) THEN <<>>
  ELSE (IF i \in idx THEN <<seq[i]>> ELSE <<>>) \o PickFrom(seq, idx, i + 1)

RECURSIVE Flatten(_)
Flatten(seqs) == IF seqs = <<>> THEN <<>> ELSE Head(seqs) \o Flatten(Tail(seqs))

FieldNames(fields) == {fields[i].name : i \in 1..Len(fields)}

\* the fields of seq whose name does not occur earlier in seq
FirstOccurrences(fields) ==
  PickFrom(fields, {i \in 1..Len(fields) : \A j \in 1..(i - 1) : fields[j].name # fields[i].name}, 1)

\* the last field of that name in fields
LastNamed(fields, name) ==
  fields[CHOOSE i \in 1..Len(fields) :
           fields[i].name = name /\ \A j \in (i + 1)..Len(fields) : fields[j].name # name]

\* the own fields of a type as its definition wrote them
OwnFields(alias) ==
  (CHOOSE d \in {declared[i] : i \in 1..Len(declared)} : d.alias = alias).fields

\* the parents' present field lists, concatenated in declared parent order
ParentFields(td) ==
  Flatten([j \in 1..Len(td.parents) |-> getType(schema.types, td.parents[j]).fields])

\* the merge the specification describes, for the type td
ExpectedFields(td) ==
  LET inherited == FirstOccurrences(ParentFields(td))
      own == OwnFields(td.alias)
      overlaid == [i \in 1..Len(inherited) |->
                     IF inherited[i].name \in FieldNames(own)
                     THEN LastNamed(own, inherited[i].name) ELSE inherited[i]]
      fresh == FirstOccurrences(
                 SelectSeq(own, LAMBDA f : f.name \notin FieldNames(inherited)))
      added == [i \in 1..Len(fresh) |-> LastNamed(own, fresh[i].name)]
  IN overlaid \o added

\* C6: every resolved type holds the parents' resolved fields in declared
\* parent order, the first occurrence of each name only, overlaid with its own
\* fields: an own field of a name already present replaces that entry where it
\* stands, any other own field is appended in declaration order.
C6_InheritanceMerge ==
  \A i \in 1..Len(schema.types) :
    schema.types[i].resolved => schema.types[i].fields = ExpectedFields(schema.types[i])

\* a resolved type with two parents that share a field name, one own field
\* that overrides an inherited one and one own field that is new
C6_Witness ==
  \E i \in 1..Len(schema.types) :
    LET td == schema.types[i] IN
    /\ td.resolved
    /\ Len(td.parents) >= 2
    /\ Len(FirstOccurrences(ParentFields(td))) < Len(ParentFields(td))
    /\ FieldNames(OwnFields(td.alias)) \cap FieldNames(ParentFields(td)) # {}
    /\ FieldNames(OwnFields(td.alias)) \ FieldNames(ParentFields(td)) # {}


Aliases(types) == {types[i].alias : i \in 1..Len(types)}

\* the parser stands at a well-formed type definition; Pending is what that
\* definition declares, read on its own
AtDefinition ==
  /\ AtLine
  /\ TopLine # <<>>
  /\ TopLine[1] \notin {"#", "@"}
  /\ parseTypeDefinition(<<>>, Top.lines, Top.i).taken
  /\ parseTypeDefinition(<<>>, Top.lines, Top.i).err = ""

Pending == parseTypeDefinition(<<>>, Top.lines, Top.i).types[1]

AliasesUnique ==
  \A i, j \in 1..Len(schema.types) :
    schema.types[i].alias = schema.types[j].alias => i = j

DuplicateRejected ==
  (AtDefinition /\ Pending.alias \in Aliases(schema.types))
    => (err'.code = "E002" /\ pc' = "failed" /\ schema' = schema)

\* C10: at every point of schema parsing the aliases of the schema are
\* pairwise distinct, and a type definition whose alias the schema already
\* holds fails with the duplicate-type error and leaves the schema as it was.
C10_AliasesUnique == [][DuplicateRejected]_vars /\ []AliasesUnique

\* a definition of an alias the schema holds already has been rejected
C10_Witness ==
  /\ pc = "failed"
  /\ err.code = "E002"
  /\ Len(schema.types) >= 1


\* ---- the schema as written: the top-level section and the files it imports

\* the type definitions written in lines, from line i on
RECURSIVE DeclsFrom(_, _)
DeclsFrom(lines, i) ==
  IF i > Len(lines) THEN {}
  ELSE IF Trim(lines[i]) = <<>> THEN DeclsFrom(lines, i + 1)
  ELSE IF Trim(lines[i])[1] \in {"#", "@"} THEN DeclsFrom(lines, i + 1)
  ELSE IF ~parseTypeDefinition(<<>>, lines, i).taken THEN DeclsFrom(lines, i + 1)
  ELSE IF parseTypeDefinition(<<>>, lines, i).err # "" THEN {}
  ELSE {parseTypeDefinition(<<>>, lines, i).types[1]}
         \union DeclsFrom(lines, parseTypeDefinition(<<>>, lines, i).next)

\* the paths the @schema directives of lines name
ImportsOf(lines) ==
  {matchDirective(Trim(lines[i])).value :
     i \in {k \in 1..Len(lines) :
              /\ Trim(lines[k]) # <<>>
              /\ Trim(lines[k])[1] = "@"
              /\ matchDirective(Trim(lines[k])).ok
              /\ matchDirective(Trim(lines[k])).name = TextSchema}}

MainLines == SplitLines(splitSections(input).schemaSection)

FileLines(path) == SplitLines(LoaderAnswer(path).text)

\* the files reached from the paths in S within n further imports
RECURSIVE ReachedFrom(_, _)
ReachedFrom(S, n) ==
  IF n = 0 THEN S
  ELSE ReachedFrom(S \union UNION {ImportsOf(FileLines(p)) : p \in S}, n - 1)

ReachedFiles == ReachedFrom(ImportsOf(MainLines), Cardinality(DOMAIN files))

\* every type definition of the combined schema
CombinedDecls == DeclsFrom(MainLines, 1) \union UNION {DeclsFrom(FileLines(p), 1) : p \in ReachedFiles}

ParentsOf(decls, alias) ==
  UNION {{d.parents[j] : j \in 1..Len(d.parents)} : d \in {e \in decls : e.alias = alias}}

\* some type of decls names a parent that no type of decls defines
UndefinedParentIn(decls) ==
  \E d \in decls : \E j \in 1..Len(d.parents) : d.parents[j] \notin {e.alias : e \in decls}

RECURSIVE AncestorsWithin(_, _, _)
AncestorsWithin(decls, S, n) ==
  IF n = 0 THEN S
  ELSE AncestorsWithin(decls, S \union UNION {ParentsOf(decls, a) : a \in S}, n - 1)

\* the parent graph of decls has a cycle
CyclicIn(decls) ==
  \E d \in decls : d.alias \in AncestorsWithin(decls, ParentsOf(decls, d.alias), Cardinality(decls))

\* schema parsing is over, with success or with an inheritance error
SchemaSettled ==
  \/ pc \in {"records", "done"}
  \/ pc = "failed" /\ err.code \in {"E010", "E013"}

\* C7: when every parent alias of the combined schema is defined, parsing
\* fails with circular-inheritance if the parent graph has a cycle, whatever
\* the order of the definitions, and otherwise every type ends resolved.
C7_CyclesDetected ==
  (SchemaSettled /\ ~UndefinedParentIn(CombinedDecls)) =>
    IF CyclicIn(CombinedDecls)
    THEN pc = "failed" /\ err.code = "E010"
    ELSE /\ pc \in {"records", "done"}
         /\ \A i \in 1..Len(schema.types) : schema.types[i].resolved

\* C8: inheritance is resolved over the combined schema only: parsing fails
\* with undefined-parent exactly when some type names a parent that neither
\* the top-level section nor any imported file defines.
C8_UndefinedParentIff ==
  SchemaSettled =>
    /\ (pc = "failed" /\ err.code = "E013") => UndefinedParentIn(CombinedDecls)
    /\ (UndefinedParentIn(CombinedDecls) /\ ~CyclicIn(CombinedDecls))
         => (pc = "failed" /\ err.code = "E013")


ResolvedKept ==
  \A i \in 1..Len(schema.types) :
    (schema.types[i].resolved /\ round' = round) =>
      /\ i <= Len(schema'.types)
      /\ schema'.types[i].alias = schema.types[i].alias
      /\ schema'.types[i].resolved
      /\ schema'.types[i].fields = schema.types[i].fields

\* C9: the field list of a resolved type is final: no later step of the
\* parse, and none of the inheritance resolutions that run at the end of each
\* imported file and of the top-level section, changes it.
C9_ResolvedFinal == [][ResolvedKept]_vars

\* the resolution at the end of the top-level section has run over a type
\* with a parent that the resolution of an imported file had resolved before
C9_Witness ==
  /\ pc = "records"
  /\ round = 1
  /\ \E i \in 1..Len(schema.types) :
       /\ schema.types[i].resolved
       /\ schema.types[i].parents # <<>>
       /\ schema.types[i].alias \notin {d.alias : d \in DeclsFrom(MainLines, 1)}
  /\ DeclsFrom(MainLines, 1) # {}

\* ---- records as written: the k-th record the parser has reached

TokensOf(k) == valueStrings(scanned[k].valuesStr)

Known(k) == hasType(schema.types, scanned[k].alias)

FieldsOf(k) == getType(schema.types, scanned[k].alias).fields

\* the k-th record was turned into a record of the result
Produced(k) == k <= Len(records)

\* the parse stopped at the k-th record with the given error
FailedAt(k, code) ==
  /\ k = Len(scanned)
  /\ Len(records) = k - 1
  /\ pc = "failed"
  /\ err.code = code

TypeName == <<"t", "y", "p", "e">>

\* the lax-mode discriminator inference applies to the k-th record
InferenceApplies(k) ==
  /\ schema.mode # "strict"
  /\ FieldIdx(FieldsOf(k), TypeName) # 0
  /\ Len(TokensOf(k)) = Len(FieldsOf(k)) - 1

\* position i of the k-th record has an empty token or none
EmptyOrAbsent(k, i) == i > Len(TokensOf(k)) \/ TokensOf(k)[i] = <<>>

DefaultOrNull(field) ==
  IF field.defaultValue.some THEN StrV(field.defaultValue.v) ELSE NullV

BackfilledAt(k) ==
  \A i \in 1..Len(FieldsOf(k)) :
    EmptyOrAbsent(k, i) => records[k].values[i] = DefaultOrNull(FieldsOf(k)[i])

WarningCount(code) == Cardinality({i \in 1..Len(warnings) : warnings[i].code = code})

WarningsAt(code, line) ==
  Cardinality({i \in 1..Len(warnings) : warnings[i].code = code /\ warnings[i].line = line})

UnknownRecord(k) ==
  IF schema.mode = "strict"
  THEN FailedAt(k, "E003")
  ELSE /\ Produced(k)
       /\ records[k].alias = scanned[k].alias
       /\ Len(records[k].values) = Len(TokensOf(k))
       /\ \A i \in 1..Len(TokensOf(k)) :
            records[k].values[i] = parseFieldValue(TokensOf(k)[i], NoField, schema.mode)
       /\ WarningsAt("E003", records[k].lineNumber) = 1

\* C3: a record whose alias has no type stops a strict parse with the
\* unknown-type error; a lax parse appends the record with every token coerced
\* without a field definition, adds exactly one unknown-type warning for it,
\* and goes on to the records that follow.
C3_UnknownAlias ==
  /\ \A k \in 1..Len(scanned) : ~Known(k) => UnknownRecord(k)
  /\ schema.mode # "strict" =>
       WarningCount("E003") = Cardinality({k \in 1..Len(scanned) : ~Known(k)})
  /\ (pc = "done" /\ schema.mode # "strict") =>
       Len(records) = Len(scanned) /\ NextRecord.kind = "end"

\* a lax parse has passed a record of an undefined alias and parsed the
\* record of a defined type that follows it
C3_Witness ==
  /\ schema.mode # "strict"
  /\ Len(records) >= 2
  /\ ~Known(1)
  /\ Known(2)
  /\ Len(TokensOf(1)) >= 2
  /\ WarningCount("E003") = 1

\* position i of the k-th record ends null: an explicit null, an empty token
\* or value where the field declares no default, or no token and no default
TokenNull(k, i) ==
  IF i > Len(TokensOf(k)) THEN ~FieldsOf(k)[i].defaultValue.some
  ELSE \/ TokensOf(k)[i] = <<"~">>
       \/ TokensOf(k)[i] \in {<<>>, <<QUOTE, QUOTE>>} /\ ~FieldsOf(k)[i].defaultValue.some

RequiredNull(k) ==
  {i \in 1..Len(FieldsOf(k)) : isRequired(FieldsOf(k)[i]) /\ TokenNull(k, i)}

StrictKnown(k) == schema.mode = "strict" /\ Known(k)

\* C4 as stated: in strict mode more tokens than fields fail with
\* schema-mismatch, and fewer tokens fail with missing-required-field exactly
\* when a field beyond the supplied count is required and has no default.
C4_FewerTokensIff ==
  \A k \in 1..Len(scanned) :
    StrictKnown(k) =>
      /\ Len(TokensOf(k)) > Len(FieldsOf(k)) => FailedAt(k, "E006")
      /\ Len(TokensOf(k)) < Len(FieldsOf(k)) =>
           IF \E i \in (Len(TokensOf(k)) + 1)..Len(FieldsOf(k)) :
                isRequired(FieldsOf(k)[i]) /\ ~FieldsOf(k)[i].defaultValue.some
           THEN FailedAt(k, "E011")
           ELSE Produced(k)

\* C4: in strict mode a record of a known type with more tokens than fields
\* fails with schema-mismatch; one with no more tokens than fields fails with
\* missing-required-field exactly when some required field ends null, be it
\* beyond the supplied count without default or at a supplied position with
\* an explicit null or an empty token without default; otherwise the record
\* is accepted.
C4_StrictFieldCount ==
  \A k \in 1..Len(scanned) :
    StrictKnown(k) =>
      IF Len(TokensOf(k)) > Len(FieldsOf(k)) THEN FailedAt(k, "E006")
      ELSE IF RequiredNull(k) # {} THEN FailedAt(k, "E011")
      ELSE Produced(k)

\* a strict parse has failed with missing-required-field on a record with
\* fewer tokens than fields whose omitted fields are all optional
C4_Witness ==
  \E k \in 1..Len(scanned) :
    /\ StrictKnown(k)
    /\ Len(TokensOf(k)) < Len(FieldsOf(k))
    /\ \A i \in (Len(TokensOf(k)) + 1)..Len(FieldsOf(k)) : ~isRequired(FieldsOf(k)[i])
    /\ FailedAt(k, "E011")

LaxRequiredNull(k) ==
  /\ Produced(k)
  /\ WarningsAt("E011", records[k].lineNumber) =
       Cardinality({i \in 1..Len(FieldsOf(k)) :
                      isRequired(FieldsOf(k)[i]) /\ records[k].values[i] = NullV})
  /\ ~InferenceApplies(k) =>
       \A i \in RequiredNull(k) : records[k].values[i] = NullV

\* C5 as stated: a required field with an explicit null, an empty token
\* without default or no token and no default stops a strict parse with
\* missing-required-field, and in lax mode gives a warning and a null value.
C5_RequiredNullAlways ==
  \A k \in 1..Len(scanned) :
    (Known(k) /\ RequiredNull(k) # {}) =>
      IF schema.mode = "strict" THEN FailedAt(k, "E011")
      ELSE /\ Produced(k)
           /\ \A i \in RequiredNull(k) : records[k].values[i] = NullV
           /\ WarningsAt("E011", records[k].lineNumber) = Cardinality(RequiredNull(k))

\* C5: a required field that ends null stops a strict parse with
\* missing-required-field when the record has no more tokens than fields; a
\* lax parse produces the record with null at that position and adds one
\* warning of that code for each such field, the positions being those of the
\* tokens when the discriminator inference does not apply.
C5_RequiredNull ==
  \A k \in 1..Len(scanned) :
    Known(k) =>
      IF schema.mode = "strict"
      THEN (Len(TokensOf(k)) <= Len(FieldsOf(k)) /\ RequiredNull(k) # {})
             => FailedAt(k, "E011")
      ELSE LaxRequiredNull(k)

\* a lax parse has produced a record with a required field at null and its
\* warning, from an explicit null token
C5_Witness ==
  \E k \in 1..Len(scanned) :
    /\ Known(k) /\ Produced(k)
    /\ schema.mode # "strict"
    /\ ~InferenceApplies(k)
    /\ \E i \in RequiredNull(k) :
         /\ i <= Len(TokensOf(k))
         /\ TokensOf(k)[i] = <<"~">>
         /\ records[k].values[i] = NullV
    /\ WarningsAt("E011", records[k].lineNumber) >= 1


\* two record lists agree on alias and values at every position
SameRecords(a, b) ==
  /\ Len(a) = Len(b)
  /\ \A i \in 1..Len(a) : a[i].alias = b[i].alias /\ a[i].values = b[i].values

\* C1: the parse of the dump of a parse result ends with the records of
\* that result, alias and values at every position, line numbers apart.
C1_RoundTrip ==
  (round = 2 /\ pc \in {"done", "failed"}) =>
    (pc = "done" /\ SameRecords(records, first))


\* ---- imports

\* the parser stands at a @schema directive for the given path
AtImportOf(path) ==
  /\ AtLine
  /\ TopLine # <<>>
  /\ TopLine[1] = "@"
  /\ matchDirective(TopLine).ok
  /\ matchDirective(TopLine).name = TextSchema
  /\ matchDirective(TopLine).value = path

ImportPaths == {PathX, PathY}

LoadCount(evs) == Cardinality({i \in 1..Len(evs) : evs[i].kind = "load"})

\* a directive for a path that is being loaded passes without a loader call,
\* an error or a change to the types
CyclicImportSkipped ==
  \A path \in ImportPaths :
    (AtImportOf(path) /\ path \in loadingStack) =>
      /\ LoadCount(events') = LoadCount(events)
      /\ err' = err
      /\ pc' = pc
      /\ schema'.types = schema.types
      /\ frames' = Advance(Top.i + 1)

\* no file is being parsed twice at once
NoFileTwiceInChain ==
  \A i, j \in 1..Len(frames) :
    (i # j /\ frames[i].filename.some /\ frames[j].filename.some)
      => frames[i].filename # frames[j].filename

\* C11: a @schema directive for a path that is still being loaded higher up
\* the import chain is passed over: the loader is not called for it, no error
\* is raised, no file is parsed inside itself so that no type is defined
\* twice, and schema parsing of an import graph with cycles comes to an end.
C11_ImportCycles ==
  /\ [][CyclicImportSkipped]_vars
  /\ []NoFileTwiceInChain
  /\ (pc = "schema") ~> (pc \in {"records", "failed"})

\* a parse whose imports form a cycle has finished its schema without error
C11_Witness ==
  /\ pc = "records"
  /\ round = 1
  /\ err.code = ""
  /\ \E i, j, k \in 1..Len(events) :
       /\ i < j /\ j < k
       /\ events[i] = LoadEvent(PathX)
       /\ events[j] = LoadEvent(PathY)
       /\ events[k] = DirectiveEvent(PathX, TRUE)
  /\ LoadCount(events) = 2


\* ---- the import list

RECURSIVE DirectivePaths(_, _)
\* the paths of the @schema directives met so far, in order; with onlyFresh,
\* those whose path was not being loaded when the directive was met
DirectivePaths(evs, onlyFresh) ==
  IF evs = <<>> THEN <<>>
  ELSE IF evs[1].kind = "schema" /\ (~onlyFresh \/ ~evs[1].loading)
       THEN <<evs[1].path>> \o DirectivePaths(Tail(evs), onlyFresh)
       ELSE DirectivePaths(Tail(evs), onlyFresh)

\* a loader call comes after the entry of its directive in the import list
AppendedBeforeLoad ==
  \A path \in ImportPaths :
    (AtImportOf(path) /\ path \notin loadingStack) =>
      schema'.imports = Append(schema.imports, path)

\* C12: every @schema directive whose path is not being loaded when it is met
\* appends its path to the import list before loading is attempted, also when
\* loading then fails; a directive whose path is still being loaded appends
\* nothing. The import list is the list of the former, in the order met.
C12_ImportList ==
  /\ [](schema.imports = DirectivePaths(events, TRUE))
  /\ [][AppendedBeforeLoad]_vars

\* an import was recorded although its loading failed, and a directive for a
\* path being loaded was passed
C12_Witness ==
  /\ round = 1
  /\ \E i \in 1..Len(events) : events[i].kind = "schema" /\ events[i].loading
  /\ Len(schema.imports) = 2
  /\ pc = "records"

\* C12 as stated: the import list has one entry per @schema directive met
C12_EveryDirective == schema.imports = DirectivePaths(events, FALSE)


\* ---- the loader

AtImport == \E path \in ImportPaths : AtImportOf(path)

\* a directive that needs the loader and has none fails with E020
MissingLoaderFails ==
  \A path \in ImportPaths :
    (AtImportOf(path) /\ path \notin loadingStack /\ ~options.hasLoader) =>
      /\ pc' = "failed"
      /\ err' = [code |-> "E020", line |-> Top.i, filename |-> Top.filename, cause |-> FALSE]

\* a loader that throws fails the parse with E020 and the failure as cause
LoaderFailureWrapped ==
  \A path \in ImportPaths :
    (AtImportOf(path) /\ path \notin loadingStack /\ options.hasLoader
       /\ ~LoaderAnswer(path).ok) =>
      /\ pc' = "failed"
      /\ err' = [code |-> "E020", line |-> Top.i, filename |-> Top.filename, cause |-> TRUE]

\* an error of a line of an imported file stays what it is: it is not
\* wrapped as E020 and not moved to the importing file
ParseErrorUnchanged ==
  (pc = "schema" /\ Len(frames) > 1 /\ ~AtImport /\ pc' = "failed") =>
    /\ err'.code # "E020"
    /\ ~err'.cause
    /\ err'.filename \in {None, Top.filename}

\* C13: a @schema directive without a loadSchema function fails the parse with
\* E020; a loader that throws something other than a parse error fails it with
\* E020 carrying that failure as cause; a parse error inside the imported
\* content reaches the caller as it was raised.
C13_LoaderContract ==
  [][MissingLoaderFails /\ LoaderFailureWrapped /\ ParseErrorUnchanged]_vars

\* the loader threw and the parse failed with the wrapped error
C13_Witness ==
  /\ pc = "failed" /\ round = 1
  /\ err.code = "E020" /\ err.cause
  /\ events = <<DirectiveEvent(PathX, FALSE), LoadEvent(PathX)>>

\* the parse failed for want of a loader
C13_WitnessNoLoader ==
  /\ pc = "failed" /\ round = 1
  /\ err.code = "E020" /\ ~err.cause
  /\ ~options.hasLoader
  /\ events = <<DirectiveEvent(PathX, FALSE)>>

\* the parse failed with an error of the imported file
C13_WitnessNested ==
  /\ pc = "failed" /\ round = 1
  /\ err.code \notin {"", "E020"}
  /\ err.filename = Some(PathX)
  /\ options.filename # Some(PathX)


\* ---- calls that run at the same time

\* C14: when two parseMaxi calls run at the same time and take turns at their
\* awaits, the outcome of a call (its schema, records and warnings, or its
\* error) is the outcome the same call has when it runs alone, also when both
\* calls import the same paths.
C14_CallsIsolated ==
  (pair.phase = "pair" /\ pair.active = "A" /\ pc \in {"done", "failed"}) =>
    Outcome = pair.solo

\* both calls have ended, each was loading the same path while the other was,
\* and the first returned a result with imported types
C14_Witness ==
  /\ pair.phase = "pair"
  /\ pair.active = "A"
  /\ pc = "done"
  /\ pair.other.pc = "done"
  /\ pair.overlapped
  /\ Len(schema.types) > 1
  /\ records # <<>>


\* ---- inline objects

\* the k-th record is W((c)): one inline object for a field of a known type
IsInlineRecord(k) ==
  /\ scanned[k].alias = <<"W">>
  /\ Known(k)
  /\ Len(TokensOf(k)) = 1
  /\ Len(scanned[k].valuesStr) >= 2
  /\ scanned[k].valuesStr[1] = "("
  /\ scanned[k].valuesStr[Len(scanned[k].valuesStr)] = ")"

InlineContent(k) == Slice(scanned[k].valuesStr, 2, Len(scanned[k].valuesStr) - 1)

\* the top-level record T(c) for the content c of the inline object
AsRecord(k) ==
  parseSingleRecord(schema.types, schema.mode,
                    getInlineObjectTypeAlias(schema.types, FieldsOf(k)[1].typeExpr).v,
                    InlineContent(k))

\* C15: an inline object (c) for a field of the known type T has the values
\* of the top-level record T(c), position by position, and the parse fails at
\* it exactly when T(c) fails.
C15_InlineAsRecord ==
  \A k \in 1..Len(scanned) :
    IsInlineRecord(k) =>
      IF AsRecord(k).err # "" THEN ~Produced(k)
      ELSE /\ Produced(k)
           /\ records[k].values[1].k = "obj"
           /\ records[k].values[1].vals = AsRecord(k).values


\* ---- quoted tokens

\* the k-th record keeps every token at its own position
TokensInPlace(k) == ~Known(k) \/ ~InferenceApplies(k)

\* the k-th record has a position i: a record of a known type has one per field
HasPosition(k, i) == ~Known(k) \/ i <= Len(FieldsOf(k))

\* position i of the k-th record holds the given string
HoldsString(k, i, str) ==
  /\ i <= Len(records[k].values)
  /\ records[k].values[i] = StrV(str)

\* C16: a token in double quotes yields at its position exactly its unescaped
\* content as a string, whatever the field's type, the empty quoted string
\* included: "a\"b" yields a"b and "" yields the empty string (tokens beyond
\* the fields of the type have no position).
C16_QuotedVerbatim ==
  \A k \in 1..Len(scanned) :
    (Produced(k) /\ TokensInPlace(k)) =>
      \A i \in 1..Len(TokensOf(k)) :
        HasPosition(k, i) =>
          /\ TokensOf(k)[i] = TokQuoted => HoldsString(k, i, <<"a", QUOTE, "b">>)
          /\ TokensOf(k)[i] = TokEmptyQuoted => HoldsString(k, i, <<>>)


\* ---- numeric guessing

\* the declared type of position i of the k-th record, if there is one
DeclaredType(k, i) == IF Known(k) THEN FieldsOf(k)[i].typeExpr ELSE None

\* position i is declared int or decimal, or is undeclared in lax mode
GuessedOrNumeric(k, i) ==
  \/ DeclaredType(k, i) \in {Some(TextInt), Some(TextDecimal)}
  \/ (schema.mode # "strict" /\ ~DeclaredType(k, i).some)

\* C17: a digit-only token becomes a number exactly under a declared type int
\* or decimal and, in lax mode, under a field without declared type; under a
\* declared type such as str it stays the raw string in both modes.
C17_NumericGuessing ==
  \A k \in 1..Len(scanned) :
    (Produced(k) /\ TokensInPlace(k)) =>
      \A i \in 1..Len(TokensOf(k)) :
        (HasPosition(k, i) /\ TokensOf(k)[i] = TokOne) =>
          (records[k].values[i].k = "num" <=> GuessedOrNumeric(k, i))


\* ---- the two ways to split a record

\* the record parseSingleRecord makes of the k-th body when its tokens come
\* from the nesting-aware splitter and are trimmed
ViaSplitter(k) ==
  typedRecordFrom(getType(schema.types, scanned[k].alias), schema.mode,
    collectTokens(schema.types, schema.mode,
                  MapTrim(recordSplitTopLevel(scanned[k].valuesStr)), FieldsOf(k), 1))

\* C18: for a record body without quotes, parentheses, brackets and braces,
\* the fast split yields the values that the nesting-aware splitter with its
\* trimming yields: every token is trimmed before it is coerced.
C18_SplitPathsAgree ==
  \A k \in 1..Len(scanned) :
    (Known(k) /\ IsSimple(scanned[k].valuesStr) /\ (Produced(k) \/ pc = "failed")) =>
      IF ViaSplitter(k).err # "" THEN ~Produced(k)
      ELSE Produced(k) /\ records[k].values = ViaSplitter(k).values


\* ---- the inferred discriminator

\* the value the schema text promises for the `type` field of U: the default
\* t, else the name User in lower case, else the alias U in lower case
ExpectedDiscriminator ==
  IF input = <<>> THEN <<>>
  ELSE IF getType(schema.types, <<"U">>).fields[FieldIdx(getType(schema.types, <<"U">>).fields, TypeName)].defaultValue.some
  THEN <<"t">>
  ELSE IF getType(schema.types, <<"U">>).name.some THEN <<"u", "s", "e", "r">>
  ELSE <<"u">>

\* the tokens of the k-th record as values, each under the field of its own index
ParsedTokens(k) == parseFieldValues(scanned[k].valuesStr, FieldsOf(k), schema.mode)

\* the values of the k-th record are its tokens with the synthesized value
\* put in at the `type` position, then back-filled
WithDiscriminator(k) ==
  records[k].values =
    finalValuesOf(FieldsOf(k),
      InsertAt(ParsedTokens(k), FieldIdx(FieldsOf(k), TypeName), StrV(ExpectedDiscriminator)))

\* the values of the k-th record are its tokens in place, back-filled
WithoutDiscriminator(k) ==
  records[k].values = finalValuesOf(FieldsOf(k), ParsedTokens(k))

\* C19: in a record of a known type a value is synthesized exactly when the
\* mode is lax, the type has a field named `type` and there is one token less
\* than fields; it goes in at the position of `type` and is the field's
\* default, else the type's name in lower case, else the alias in lower case.
\* In strict mode nothing is synthesized.
C19_DiscriminatorInference ==
  \A k \in 1..Len(scanned) :
    (Known(k) /\ Produced(k) /\ scanned[k].alias = <<"U">>) =>
      IF InferenceApplies(k) THEN WithDiscriminator(k) ELSE WithoutDiscriminator(k)

\* the name of the type, in lower case, was put between the two tokens
C19_Witness ==
  /\ round = 1
  /\ Len(scanned) = 1 /\ Produced(1) /\ Known(1)
  /\ InferenceApplies(1)
  /\ TokensOf(1) = <<TokOne, TokX>>
  /\ records[1].values = <<NumV(1, 0), StrV(<<"u", "s", "e", "r">>), StrV(TokX)>>

\* the default won over the name, and the alias stood in without both
C19_WitnessDefault ==
  /\ round = 1
  /\ Len(scanned) = 1 /\ Produced(1) /\ Known(1)
  /\ InferenceApplies(1)
  /\ records[1].values = <<StrV(TokX), StrV(<<"t">>)>>

C19_WitnessAlias ==
  /\ round = 1
  /\ Len(scanned) = 1 /\ Produced(1) /\ Known(1)
  /\ InferenceApplies(1)
  /\ records[1].values = <<StrV(<<"u">>), StrV(TokX)>>


\* ---- constraints and default of a field

\* the field has the given name, the type int, one comparison constraint and
\* the default 5
IntFieldWith(field, name, op, bound) ==
  /\ field.name = name
  /\ field.typeExpr = Some(TextInt)
  /\ field.constraints = <<Con("comparison", op, NumV(bound, 0), <<>>)>>
  /\ field.defaultValue = Some(<<"5">>)

\* C20: a field with a constraint group and a default parses to its name, its
\* type, the constraints of the group and the default in both orders: once
\* the schema T:Thing(n:int(>=1)=5|m:int=5(<=9)) is parsed, the type T exists,
\* its field n is an int with >= 1 and default 5 and its field m an int with
\* <= 9 and default 5.
C20_EitherOrder ==
  (input = TextBothOrders /\ pc \in {"records", "done", "failed"}) =>
    /\ hasType(schema.types, <<"T">>)
    /\ Len(getType(schema.types, <<"T">>).fields) = 2
    /\ IntFieldWith(getType(schema.types, <<"T">>).fields[1], <<"n">>, <<">", "=">>, 1)
    /\ IntFieldWith(getType(schema.types, <<"T">>).fields[2], <<"m">>, <<"<", "=">>, 9)


\* ---- the number of values of a record

\* C25: every record produced for an alias that names a type has exactly as
\* many values as the type has fields, in both modes and for every number of
\* tokens.
C25_ValueCount ==
  \A k \in 1..Len(scanned) :
    (Known(k) /\ Produced(k)) => Len(records[k].values) = Len(FieldsOf(k))

\* a lax record with more tokens than fields and one with fewer
C25_Witness ==
  \E k \in 1..Len(scanned) :
    /\ Known(k) /\ Produced(k)
    /\ schema.mode # "strict"
    /\ Len(TokensOf(k)) > Len(FieldsOf(k))
    /\ Len(records[k].values) = Len(FieldsOf(k))

C25_WitnessFewer ==
  \E k \in 1..Len(scanned) :
    /\ Known(k) /\ Produced(k)
    /\ Len(TokensOf(k)) + 2 <= Len(FieldsOf(k))
    /\ Len(records[k].values) = Len(FieldsOf(k))


\* ---- tokens and the fields they are coerced against

\* the position in the record of the value of the j-th token: the inference
\* moves the tokens from the `type` position on one field to the right
PositionOfToken(k, j) ==
  IF InferenceApplies(k) /\ j >= FieldIdx(FieldsOf(k), TypeName) THEN j + 1 ELSE j

\* the j-th token of the k-th record is at a field's position, and its value,
\* not being the empty string, is not replaced by the back-fill
SuppliedAt(k, j) ==
  /\ PositionOfToken(k, j) <= Len(FieldsOf(k))
  /\ TokensOf(k)[j] # <<>>
  /\ TokensOf(k)[j] # TokEmptyQuoted

\* C26: in a record of a known type the value at the position of every
\* supplied token is that token coerced against the field of that position,
\* also for the tokens the discriminator inference moved.
C26_CoercedByPosition ==
  \A k \in 1..Len(scanned) :
    (Known(k) /\ Produced(k)) =>
      \A j \in 1..Len(TokensOf(k)) :
        SuppliedAt(k, j) =>
          records[k].values[PositionOfToken(k, j)]
            = parseFieldValue(TokensOf(k)[j],
                              SomeField(FieldsOf(k)[PositionOfToken(k, j)]),
                              schema.mode)


\* ---- field names of the resolved types

SchemaParsed == pc \in {"records", "done"}

UniqueNames(fields) ==
  \A i, j \in 1..Len(fields) : fields[i].name = fields[j].name => i = j

HoldsParentNames(td) ==
  \A j \in 1..Len(td.parents) :
    /\ hasType(schema.types, td.parents[j])
    /\ FieldNames(getType(schema.types, td.parents[j]).fields) \subseteq FieldNames(td.fields)

\* C27: once the schema is parsed, no type has two fields of the same name,
\* and every type has a field for each field name of each of its parents.
C27_FieldNames ==
  SchemaParsed =>
    \A i \in 1..Len(schema.types) :
      UniqueNames(schema.types[i].fields) /\ HoldsParentNames(schema.types[i])

\* a parsed schema with a type that wrote a field name twice and a type whose
\* own field has the name of a parent's field
C27_Witness ==
  /\ SchemaParsed
  /\ \E i \in 1..Len(schema.types) : ~UniqueNames(OwnFields(schema.types[i].alias))
  /\ \E i \in 1..Len(schema.types) :
       /\ schema.types[i].parents # <<>>
       /\ FieldNames(OwnFields(schema.types[i].alias)) \cap FieldNames(ParentFields(schema.types[i])) # {}


\* ---- the loading stack and repeated imports

\* the paths of the files being parsed: every frame above the input's
PathsInProgress == {frames[i].filename.v : i \in 2..Len(frames)}

LoadsOf(evs, path) == Cardinality({i \in 1..Len(evs) : evs[i] = LoadEvent(path)})

\* a directive for a path that is not being loaded calls the loader, also
\* when the path was loaded before
LoadedAgain ==
  \A path \in ImportPaths :
    (AtImportOf(path) /\ path \notin loadingStack /\ options.hasLoader) =>
      LoadsOf(events', path) = LoadsOf(events, path) + 1

\* a file that defines a type has been loaded a second time
TypedReload ==
  \E path \in ImportPaths :
    LoadsOf(events, path) >= 2 /\ DeclsFrom(FileLines(path), 1) # {}

\* C30: the loading stack holds exactly the paths whose load is in progress;
\* a directive for a path loaded earlier in the same parse calls the loader
\* again, and when the file defines a type the parse then fails with
\* duplicate-type.
C30_RepeatedImport ==
  /\ [](loadingStack = PathsInProgress)
  /\ [][LoadedAgain]_vars
  /\ [](TypedReload => (pc = "schema" \/ (pc = "failed" /\ err.code = "E002")))
  /\ TypedReload ~> (pc = "failed" /\ err.code = "E002")

\* a diamond: x was loaded below y and again by the input, and the parse
\* failed on the type of x
C30_Witness ==
  /\ input = TextDiamond
  /\ LoadsOf(events, PathX) = 2
  /\ LoadsOf(events, PathY) = 1
  /\ loadingStack = {}
  /\ pc = "failed" /\ err.code = "E002"

\* a file without a type was loaded twice and the schema parsed
C30_WitnessNoType ==
  /\ input = TextImportTwice
  /\ LoadsOf(events, PathX) = 2
  /\ pc = "records"


\* ---- where a fatal error points

\* the file parseMaxi is reading: the imported file on top of the import
\* chain, else the input with the caller's filename option
CurrentFile == IF pc = "schema" /\ frames # <<>> THEN Top.filename ELSE options.filename

\* a step that ends the parse with an error gives the error a code, a line
\* and the file being read
ErrorLocated ==
  (pc # "failed" /\ pc' = "failed") =>
    /\ err'.code # ""
    /\ err'.line >= 1
    /\ err'.filename = CurrentFile

\* C24: every fatal error of parseMaxi carries a code and a line number, and
\* as filename the path of the imported file it arose in, or the caller's
\* filename option for the input itself.
C24_ErrorContext == [][ErrorLocated]_vars


\* ---- escaping

\* C28: a string written by escapeString between quotes is read back by
\* parseQuotedString as the same string.
C28_EscapeRoundTrip == unquoted.some => unquoted.v = subject


\* ---- the tokens of a dumped object

\* the rows dumpMaxi emitted, in output order, and the line of the k-th row
EmittedRows == rowsOf(recordsToDump)

LineOfRow(k) == out[Len(out) - Len(EmittedRows) + k]

\* the tokens between the parentheses of the k-th row's line
EmittedTokens(k) ==
  LET body == Slice(LineOfRow(k), Len(EmittedRows[k].alias) + 2, Len(LineOfRow(k)) - 1)
  IN IF body = <<>> THEN <<>> ELSE recordSplitTopLevel(body)

RowObject(k) == heap[EmittedRows[k].obj]

RowFields(k) == getType(allTypes, EmittedRows[k].alias).fields

\* what the claim lets stand at position i of the k-th row: nothing for an
\* absent key, ~ for null and undefined, else the dumped value
ExpectedToken(k, i) ==
  IF ~hasOwn(RowObject(k), RowFields(k)[i].name) THEN <<>>
  ELSE IF Prop(RowObject(k), RowFields(k)[i].name).k \in {"null", "undef"} THEN <<"~">>
  ELSE dumpValueIn(heap, allTypes, Prop(RowObject(k), RowFields(k)[i].name),
                   SomeField(RowFields(k)[i]))

TokensByField(k) ==
  /\ Len(EmittedTokens(k)) <= Len(RowFields(k))
  /\ \A i \in 1..Len(EmittedTokens(k)) : EmittedTokens(k)[i] = ExpectedToken(k, i)
  /\ \A i \in (Len(EmittedTokens(k)) + 1)..Len(RowFields(k)) : ExpectedToken(k, i) = <<>>
  /\ EmittedTokens(k) # <<>> => EmittedTokens(k)[Len(EmittedTokens(k))] # <<>>

\* C21: the line of an object dumped against its type has, field by field in
\* the type's order, an empty token for an absent key, ~ for null or
\* undefined and the dumped value otherwise, without the trailing run of
\* empty tokens and with every other empty token in place.
C21_TokensByField ==
  dpc = "done" =>
    \A k \in 1..Len(EmittedRows) :
      hasType(allTypes, EmittedRows[k].alias) => TokensByField(k)

\* {id: 1, email: null} dumped as U(1||~): the absent name leaves its place empty
C21_Witness ==
  /\ dpc = "done"
  /\ heap = <<ObjOf(<<NameId, NameEmail>>, <<NumV(1, 0), NullV>>)>>
  /\ EmittedTokens(1) = <<<<"1">>, <<>>, <<"~">>>>

\* {name: 'x'} dumped as U(|x): the absent email is trimmed, the absent id kept
C21_WitnessTrimmed ==
  /\ dpc = "done"
  /\ heap = <<ObjOf(<<NameName>>, <<StrV(<<"x">>)>>)>>
  /\ EmittedTokens(1) = <<<<>>, <<"x">>>>


\* ---- the traversal of reference promotion

NoRepeat(seq) == \A i, j \in 1..Len(seq) : seq[i] = seq[j] => i = j

\* the worklist entries a step of the traversal pushed
PushedBy ==
  IF dpc = "start" THEN work'
  ELSE IF dpc = "collect" /\ work # <<>> THEN SubSeq(work', Len(work), Len(work'))
  ELSE <<>>

\* a step pushes no object twice and none that was pushed before: every
\* pushed object is unseen until the step and seen after it
PushedOnce ==
  /\ NoRepeat([i \in 1..Len(PushedBy) |-> PushedBy[i].obj])
  /\ \A i \in 1..Len(PushedBy) :
       PushedBy[i].obj \notin seenObjects /\ PushedBy[i].obj \in seenObjects'
  /\ seenObjects \subseteq seenObjects'

\* the rows of the buckets are the rows handed in and then the promoted
\* objects, each promoted object once
PromotedOnce ==
  /\ NoRepeat(promoted)
  /\ \A o \in 1..Len(heap) :
       Cardinality({k \in 1..Len(EmittedRows) : EmittedRows[k].obj = o})
         = Cardinality({k \in 1..Len(rowsOf(data)) : rowsOf(data)[k].obj = o})
           + Cardinality({i \in 1..Len(promoted) : promoted[i] = o})

\* C22: with promotion enabled every object is put into a bucket by
\* promotion at most once and pushed onto the worklist at most once, also
\* when several fields, shared references or a cycle lead to it, and the
\* traversal comes to an end.
C22_PromotedOnce ==
  /\ [](dpc \in {"collect", "emit", "done"} => PromotedOnce)
  /\ [][PushedOnce]_vars
  /\ (dpc = "collect") ~> (dpc = "emit")

\* the second object stands twice in an array of the first and is the child
\* of the third, and its own child is the first: both were promoted once
C22_Witness ==
  /\ dpc = "done"
  /\ collectRefs
  /\ heap = HeapArray
  /\ promoted = <<2, 3>>
  /\ recordsToDump = <<Bucket(AliasN, <<1, 2, 3>>)>>


\* ---- which nested objects are promoted and which are written by reference

\* the nested objects of the emitted records, each with the form it was given
RenderedForms ==
  UNION {formsOfRecord(heap, allTypes, heap[EmittedRows[k].obj],
                       typeOfAlias(allTypes, EmittedRows[k].alias)) :
           k \in 1..Len(EmittedRows)}

\* the object carries an identifier that is not null
Identified(o) == Prop(heap[o], NameId).k \notin {"undef", "null"}

Promoted == {promoted[i] : i \in 1..Len(promoted)}

\* C23: a nested object is promoted, and is written as its identifier alone,
\* only when it carries a non-null identifier; a nested object under a typed
\* field whose identifier is null or absent is not promoted and is written
\* as an inline record.
C23_IdentifiedOnly ==
  dpc = "done" =>
    /\ \A o \in Promoted : Identified(o)
    /\ \A r \in RenderedForms :
         /\ r.form = "ref" => Identified(r.obj)
         /\ (r.form # "map" /\ ~Identified(r.obj)) =>
              r.form = "inline" /\ r.obj \notin Promoted


\* ---- references and the records they point to

EmittedObjects == {EmittedRows[k].obj : k \in 1..Len(EmittedRows)}

\* C29: every nested object with a non-null identifier that dumpMaxi writes
\* as its identifier alone has a top-level record in the output, wherever it
\* is nested and whether collectReferences is on or off.
C29_NoDanglingReference ==
  dpc = "done" =>
    \A r \in RenderedForms :
      (r.form = "ref" /\ Identified(r.obj)) => r.obj \in EmittedObjects


====
